---- MODULE Spec2Model ----
(***************************************************************************)
(* EmerLang: a reversible text stylisation codec.                          *)
(*   codebook training   src/src/emlang/codebook.py                        *)
(*   encode pipeline     src/src/emlang/encoder.py                         *)
(*   decode pipeline     src/src/emerlang/decoder.py                       *)
(*   tokenizer, joiner   src/src/emerlang/tokenize.py, utils.py            *)
(* A Python str is modelled as a sequence of one-character strings, a      *)
(* dict as the sequence of its <<key, value>> pairs in insertion order.    *)
(***************************************************************************)
EXTENDS Integers, Sequences, FiniteSets, TLC

VARIABLES
    stream,   \* per seed, the part of random.Random(seed) drawn so far
    clock,    \* the last reading of time.time()
    run,      \* the call of Codebook.train in progress
    books,    \* the codebooks train has returned, with their arguments
    files,    \* what Codebook.save has written
    fb,       \* one word on its way through the fallback codec
    cb,       \* the Codebook the calls of encode and decode are given
    call,     \* per caller, the call of encode or decode in progress
    noise,    \* per seed, what has been drawn from the generator of encode
    gens      \* per training run, the generator _token_factory made for it

trainVars == <<stream, clock, run, books, files>>

fbVars == <<fb>>

codecVars == <<cb, call, noise>>

genVars == <<gens>>

vars == <<stream, clock, run, books, files, fb, cb, call, noise, gens>>

(***************************************************************************)
(* Bounds of the model.                                                    *)
(***************************************************************************)
\* retry limit of make_token; the source loops range(10000)
MaxAttempts == 2
\* largest value of rnd.randint; the source draws randint(0, 99)
MaxDigit == 1
\* largest vocab_size passed to train
MaxVocab == 2
\* number of tokens of a generated corpus
MaxCorpusToks == 3
\* largest reading of time.time()
MaxClock == 1
\* number of characters of a word given to the fallback codec
MaxWordLen == 2

\* pieces in a text given to encode
MaxTextPieces == 2

\* pieces in a string given to decode
MaxEncodedPieces == 3

\* markers in a run between two symbols
MaxRun == 3

\* structure is a multiple of 1/Levels
Levels == 2

\* calls of make_token on one generator
MaxCalls == 2

\* characters inserted into the glyphs of one block
MaxInserted == 2

(***************************************************************************)
(* Sequences and insertion-ordered dicts.                                  *)
(***************************************************************************)
Range(s) == {s[i] : i \in DOMAIN s}

Min(a, b) == IF a < b THEN a ELSE b

RECURSIVE Concat(_)
Concat(ss) == IF ss = <<>> THEN <<>> ELSE Head(ss) \o Concat(Tail(ss))

SeqsUpTo(S, n) == UNION {[1..k -> S] : k \in 0..n}

DictKeys(d) == {d[i][1] : i \in DOMAIN d}

DictValues(d) == {d[i][2] : i \in DOMAIN d}

DictHas(d, k) == \E i \in DOMAIN d : d[i][1] = k

DictGet(d, k) == d[CHOOSE i \in DOMAIN d : d[i][1] = k][2]

\* d[k] = v: a new key is appended, an existing key keeps its place
DictSet(d, k, v) ==
    IF DictHas(d, k)
    THEN [i \in DOMAIN d |-> IF d[i][1] = k THEN <<k, v>> ELSE d[i]]
    ELSE Append(d, <<k, v>>)

(***************************************************************************)
(* Characters.                                                             *)
(***************************************************************************)
LATIN_LOWER == <<"a","b","c","d","e","f","g","h","i","j","k","l","m",
                 "n","o","p","q","r","s","t","u","v","w","x","y","z">>

LATIN_UPPER == <<"A","B","C","D","E","F","G","H","I","J","K","L","M",
                 "N","O","P","Q","R","S","T","U","V","W","X","Y","Z">>

GREEK_LOWER == <<"α","β","γ","δ","ε","ζ","η","θ","ι","κ","λ","μ",
                 "ν","ξ","ο","π","ρ","σ","τ","υ","φ","χ","ψ","ω">>

GREEK_UPPER == <<"Α","Β","Γ","Δ","Ε","Ζ","Η","Θ","Ι","Κ","Λ","Μ",
                 "Ν","Ξ","Ο","Π","Ρ","Σ","Τ","Υ","Φ","Χ","Ψ","Ω">>

\* A character that the module's lexer does not take inside a string, or
\* that agrees in its low byte with another character of the model (state
\* fingerprints do not tell the two apart), is written by its code point.
THEREFORE == "U+2234"

OPS == <<"Δ","Ψ","Ω","Λ","Σ","Φ","Θ","Ξ","ζ","δ","π","U+00B5","U+2211",THEREFORE,
         "U+2295","U+2297","U+22A1","⟦","⟧","⟨","⟩","⇔","⇒","⇐","U+2194","U+2192","←","U+2235",
         "U+2248","U+2261","U+221D","U+221E","U+2207">>

RESERVED == {<<"⟦">>, <<"⟧">>, <<"⟨">>, <<"⟩">>, <<":", ":">>, <<THEREFORE>>}

DIGITS == <<"0","1","2","3","4","5","6","7","8","9">>

\* the capital I with a dot above (category Lu)
I_DOTTED == "U+0130"

\* [^\W\d_]: a letter (the micro sign of OPS is one, category Ll)
LETTERS ==
    Range(LATIN_LOWER) \cup Range(LATIN_UPPER)
        \cup Range(GREEK_LOWER) \cup Range(GREEK_UPPER)
        \cup {"U+00B5", "â", "U+00E9", "U+4E2D", I_DOTTED}

IsLetter(c) == c \in LETTERS

\* [0-9]
DIGIT_CHARS == Range(DIGITS)

IsDigit(c) == c \in DIGIT_CHARS

\* \w
IsWordChar(c) == IsLetter(c) \/ IsDigit(c) \/ c = "_"

\* \s
IsSpace(c) == c \in {" ", "\n", "\t"}

\* ['â€™\-]: the characters that join the parts of one word token
IsJoiner(c) == c \in {"'", "â", "€", "U+2122", "-"}

IndexOf(s, c) == CHOOSE i \in DOMAIN s : s[i] = c

\* the lower-case form of every upper-case letter
LOWER_OF ==
    [c \in Range(LATIN_UPPER) \cup Range(GREEK_UPPER) |->
        IF c \in Range(LATIN_UPPER) THEN LATIN_LOWER[IndexOf(LATIN_UPPER, c)]
        ELSE GREEK_LOWER[IndexOf(GREEK_UPPER, c)]]

\* str.lower() of one character
LowerChar(c) == IF c \in DOMAIN LOWER_OF THEN LOWER_OF[c] ELSE c

\* the combining dot above, a mark: neither \w nor \s
DOT_ABOVE == "U+0307"

\* str.lower(): one character for each, except that the capital I with a
\* dot above becomes an i followed by the combining dot
Lower(w) ==
    Concat([i \in DOMAIN w |->
               IF w[i] = I_DOTTED THEN <<"i", DOT_ABOVE>> ELSE <<LowerChar(w[i])>>])

\* str(n) of a non-negative int
RECURSIVE Str(_)
Str(n) == IF n < 10 THEN <<DIGITS[n + 1]>>
          ELSE Str(n \div 10) \o <<DIGITS[(n % 10) + 1]>>

(***************************************************************************)
(* Tokenizer: WORD_RE.findall and is_word.                                 *)
(***************************************************************************)
\* length of the longest run of letters of s that starts at i
RECURSIVE LetterRun(_, _)
LetterRun(s, i) ==
    IF i <= Len(s) /\ IsLetter(s[i]) THEN 1 + LetterRun(s, i + 1) ELSE 0

\* length of the longest run of [0-9] of s that starts at i
RECURSIVE DigitRun(_, _)
DigitRun(s, i) ==
    IF i <= Len(s) /\ IsDigit(s[i]) THEN 1 + DigitRun(s, i + 1) ELSE 0

\* length of (?:['â€™\-][^\W\d_]+)* matched greedily at i
RECURSIVE JoinedRun(_, _)
JoinedRun(s, i) ==
    IF i < Len(s) /\ IsJoiner(s[i]) /\ IsLetter(s[i + 1])
    THEN LET n == LetterRun(s, i + 1)
         IN  1 + n + JoinedRun(s, i + 1 + n)
    ELSE 0

\* length of the match of WORD_RE at i, 0 when there is none
WordMatch(s, i) ==
    IF IsLetter(s[i])
    THEN LET n == LetterRun(s, i) IN n + JoinedRun(s, i + n)
    ELSE IF IsDigit(s[i]) THEN DigitRun(s, i)
    ELSE IF ~IsWordChar(s[i]) /\ ~IsSpace(s[i]) THEN 1
    ELSE 0

RECURSIVE TokenizeFrom(_, _)
TokenizeFrom(s, i) ==
    IF i > Len(s) THEN <<>>
    ELSE LET n == WordMatch(s, i)
         IN  IF n = 0 THEN TokenizeFrom(s, i + 1)
             ELSE <<SubSeq(s, i, i + n - 1)>> \o TokenizeFrom(s, i + n)

tokenize_basic(text) == TokenizeFrom(text, 1)

is_word(tok) ==
    /\ tok # <<>>
    /\ \/ \A i \in DOMAIN tok : IsLetter(tok[i])
       \/ \A i \in DOMAIN tok : IsDigit(tok[i])

(***************************************************************************)
(* Symbol generator: _token_factory and make_token.                        *)
(* random.Random(seed) is a stream fixed by the seed; stream[seed] holds   *)
(* the part of it drawn so far, one entry per composition attempt (the     *)
(* letter, the optional character and the number of that attempt).         *)
(***************************************************************************)
Seeds == {42}

\* the letters, optional characters and numbers the stream is drawn from
DrawLetters == {"Ω"}

DrawOptional == {<<>>, <<THEREFORE>>}

Draws == [a : DrawLetters, b : DrawOptional, c : 0..MaxDigit]

\* t = f"{a}{b}{c:02d}": the number padded to two digits
compose_padded(d) ==
    <<d.a>> \o d.b \o (IF d.c < 10 THEN <<"0">> ELSE <<>>) \o Str(d.c)

\* t = f"{a}{b}{c}"
Compose(d) == <<d.a>> \o d.b \o Str(d.c)

\* k = f"Ω{len(used)}"
Escape(used) == <<"Ω">> \o Str(Cardinality(used))

\* make_token returning what it composes first, whatever was issued before
make_token_unchecked(s, pos, used, left) ==
    LET t == Compose(s[pos + 1])
    IN  [tok |-> t, pos |-> pos + 1, used |-> used \cup {t}, composed |-> TRUE]

\* One call of make_token on generator state (pos, used) over the stream s:
\* the token returned, the state left behind, and whether it was composed.
RECURSIVE make_token(_, _, _, _)
make_token(s, pos, used, left) ==
    IF left = 0
    THEN LET k == Escape(used)
         IN  [tok |-> k, pos |-> pos, used |-> used \cup {k}, composed |-> FALSE]
    ELSE LET t == Compose(s[pos + 1])
         IN  IF t \notin used /\ t \notin RESERVED
             THEN [tok |-> t, pos |-> pos + 1, used |-> used \cup {t},
                   composed |-> TRUE]
             ELSE make_token(s, pos + 1, used, left - 1)

\* The streams that continue s by what one call of make_token reads beyond the
\* part drawn so far: an attempt reads the entry at pos + 1, drawn now when the
\* stream does not hold it yet.
RECURSIVE Continuations(_, _, _, _)
Continuations(s, pos, used, left) ==
    IF left = 0 THEN {s}
    ELSE LET after(s1) ==
                 LET t == Compose(s1[pos + 1])
                 IN  IF t \notin used /\ t \notin RESERVED THEN {s1}
                     ELSE Continuations(s1, pos + 1, used, left - 1)
         IN  IF pos + 1 <= Len(s) THEN after(s)
             ELSE UNION {after(Append(s, d)) : d \in Draws}

(***************************************************************************)
(* Generators on their own: each training run g has the generator that its *)
(* call of _token_factory returned; the calls of make_token of the runs    *)
(* interleave.                                                             *)
(***************************************************************************)
Instances == {1, 2}

NoGenerator == [pc |-> "none"]

\* the set used of make_token with make_token and rnd in one module-level
\* closure: every run sees what any run has issued
used_shared(g) == UNION {gens[h].used : h \in {i \in Instances : gens[i].pc = "ready"}}

\* used = set() inside _token_factory: the set of the closure of run g
used_of(g) == gens[g].used

\* make_token = _token_factory(seed)
Factory(g) ==
    /\ gens[g].pc = "none"
    /\ \E seed \in Seeds :
          gens' = [gens EXCEPT ![g] = [pc |-> "ready", seed |-> seed, pos |-> 0,
                                       used |-> {}, issued |-> <<>>]]
    /\ UNCHANGED <<trainVars, fbVars, codecVars>>

\* et = make_token() in run g, at most calls times
MakeToken(g, calls) ==
    /\ gens[g].pc = "ready" /\ Len(gens[g].issued) < calls
    /\ \E s \in Continuations(stream[gens[g].seed], gens[g].pos, used_of(g),
                                MaxAttempts) :
          LET r == make_token(s, gens[g].pos, used_of(g), MaxAttempts)
          IN  /\ stream' = [stream EXCEPT ![gens[g].seed] = s]
              /\ gens' = [gens EXCEPT ![g].pos = r.pos, ![g].used = r.used,
                                      ![g].issued = Append(@, r.tok)]
    /\ UNCHANGED <<clock, run, books, files, fbVars, codecVars>>

GenIdle == gens = [g \in Instances |-> NoGenerator]

\* the largest number randint(0, 99) returns
RANDINT_MAX == 99

\* everything one attempt of make_token can draw: a from GREEK_UPPER +
\* GREEK_LOWER, b from "", OPS and GREEK_LOWER, c from 0..99
FullDraws ==
    [a : Range(GREEK_UPPER) \cup Range(GREEK_LOWER),
     b : {<<>>} \cup {<<x>> : x \in Range(OPS) \cup Range(GREEK_LOWER)},
     c : 0..RANDINT_MAX]

\* a generator fresh from _token_factory whose first attempt draws d
FirstDraw(d) ==
    /\ stream = [seed \in Seeds |-> <<d>>]
    /\ gens = [g \in Instances |->
                  IF g = 1 THEN [pc |-> "ready", seed |-> 42, pos |-> 0,
                                 used |-> {}, issued |-> <<>>]
                  ELSE NoGenerator]

(***************************************************************************)
(* Codebook.train                                                          *)
(***************************************************************************)
HEX_DIGIT_TO_GLYPH ==
    << <<"0","α">>, <<"1","β">>, <<"2","γ">>, <<"3","δ">>,
       <<"4","ε">>, <<"5","ζ">>, <<"6","η">>, <<"7","θ">>,
       <<"8","ι">>, <<"9","κ">>, <<"a","λ">>, <<"b","μ">>,
       <<"c","ν">>, <<"d","ξ">>, <<"e","ο">>, <<"f","π">> >>

GLYPH_TO_HEX ==
    [i \in DOMAIN HEX_DIGIT_TO_GLYPH |->
        <<HEX_DIGIT_TO_GLYPH[i][2], HEX_DIGIT_TO_GLYPH[i][1]>>]

\* words = [t.lower() for t in toks if is_word(t)]
CorpusWords(text) ==
    LET toks == tokenize_basic(text)
        kept == SelectSeq(toks, is_word)
    IN  [i \in DOMAIN kept |-> Lower(kept[i])]

\* Counter(words): the counts, keyed in order of first occurrence
RECURSIVE Counter(_)
Counter(words) ==
    IF words = <<>> THEN <<>>
    ELSE LET n    == Len(words)
             init == Counter(SubSeq(words, 1, n - 1))
             w    == words[n]
         IN  DictSet(init, w, IF DictHas(init, w) THEN DictGet(init, w) + 1 ELSE 1)

\* freq.most_common(n): sorted by count, largest first, equal counts in
\* insertion order, cut to the first n
RECURSIVE SortedByCount(_)
SortedByCount(freq) ==
    IF freq = <<>> THEN <<>>
    ELSE LET best == CHOOSE i \in DOMAIN freq :
                        /\ \A j \in DOMAIN freq : freq[j][2] <= freq[i][2]
                        /\ \A j \in 1..(i - 1) : freq[j][2] < freq[i][2]
             rest == [j \in 1..(Len(freq) - 1) |->
                        IF j < best THEN freq[j] ELSE freq[j + 1]]
         IN  <<freq[best]>> \o SortedByCount(rest)

\* most_common without the sort: the first n words in order of occurrence
most_common_unsorted(freq, n) == SubSeq(freq, 1, Min(n, Len(freq)))

\* most_common without the cut to n words
most_common_uncut(freq, n) == SortedByCount(freq)

most_common(freq, n) ==
    LET all == SortedByCount(freq)
    IN  SubSeq(all, 1, Min(n, Len(all)))

\* the Codebook dataclass
Codebook(created, seed, vocab_size, word2em, em2word) ==
    [format |-> 3, created |-> created, seed |-> seed,
     vocab_size |-> vocab_size, ngram_max |-> 1, tokenizer |-> "basic",
     word2em |-> word2em, em2word |-> em2word,
     hex2glyph |-> HEX_DIGIT_TO_GLYPH, glyph2hex |-> GLYPH_TO_HEX]

\* the data Codebook.save hands to json.dump, in key order
SaveData(self) ==
    << <<"format", self.format>>, <<"created", self.created>>, <<"seed", self.seed>>,
       <<"vocab_size", self.vocab_size>>, <<"ngram_max", self.ngram_max>>,
       <<"tokenizer", self.tokenizer>>, <<"word2em", self.word2em>>,
       <<"em2word", self.em2word>>, <<"hex2glyph", self.hex2glyph>>,
       <<"glyph2hex", self.glyph2hex>> >>

(***************************************************************************)
(* Training runs.                                                          *)
(***************************************************************************)
\* the tokens a generated corpus is made of, separated by single spaces
CorpusPieces == {<<"a">>, <<"b">>, <<"B">>}

RECURSIVE JoinWithSpaces(_)
JoinWithSpaces(ps) ==
    IF ps = <<>> THEN <<>>
    ELSE IF Len(ps) = 1 THEN ps[1]
    ELSE ps[1] \o <<" ">> \o JoinWithSpaces(Tail(ps))

\* "the cat sat on the mat the cat ran"
ExampleCorpus ==
    JoinWithSpaces(<< <<"t","h","e">>, <<"c","a","t">>, <<"s","a","t">>,
                      <<"o","n">>, <<"t","h","e">>, <<"m","a","t">>,
                      <<"t","h","e">>, <<"c","a","t">>, <<"r","a","n">> >>)

\* "a-b a": a hyphenated token is one token and is not word-like
HyphenCorpus == <<"a", "-", "b", " ", "a">>

Corpora ==
    {JoinWithSpaces(ps) : ps \in SeqsUpTo(CorpusPieces, MaxCorpusToks)}
        \cup {HyphenCorpus}

\* the (corpus, vocab_size) pairs train is called with: every generated
\* corpus with every size up to MaxVocab, and the example corpus with size 3
TrainInputs ==
    (Corpora \X (0..MaxVocab)) \cup {<<ExampleCorpus, 3>>}

Idle == [pc |-> "idle"]

\* BeginTrain with the most common words taken from the least frequent up
BeginTrainAscending(corpus, vocab_size, seed) ==
    LET freq == Counter(CorpusWords(corpus))
        top  == most_common(freq, vocab_size)
    IN  [pc |-> "assign", corpus |-> corpus, vocab_size |-> vocab_size,
         seed |-> seed,
         most_common |-> [i \in DOMAIN top |-> top[Len(top) + 1 - i][1]],
         next |-> 1, pos |-> 0, used |-> {},
         word2em |-> <<>>, em2word |-> <<>>]

\* train up to the first call of make_token: the corpus is read, counted and
\* cut to the vocab_size most common words, and the generator is created
BeginTrain(corpus, vocab_size, seed) ==
    LET freq == Counter(CorpusWords(corpus))
        top  == most_common(freq, vocab_size)
    IN  [pc |-> "assign", corpus |-> corpus, vocab_size |-> vocab_size,
         seed |-> seed, most_common |-> [i \in DOMAIN top |-> top[i][1]],
         next |-> 1, pos |-> 0, used |-> {},
         word2em |-> <<>>, em2word |-> <<>>]

\* the first call of Codebook.train
TrainStart ==
    /\ run.pc = "idle" /\ books = <<>>
    /\ \E in \in TrainInputs, seed \in Seeds :
          run' = BeginTrain(in[1], in[2], seed)
    /\ UNCHANGED <<stream, clock, books, files, fbVars, codecVars, genVars>>

\* a later call of Codebook.train with the arguments of the first, whose
\* codebook has been saved
TrainAgain ==
    /\ run.pc = "idle" /\ Len(books) = 1 /\ Len(files) = 1
    /\ run' = BeginTrain(books[1].corpus, books[1].vocab_size, books[1].seed)
    /\ UNCHANGED <<stream, clock, books, files, fbVars, codecVars, genVars>>

\* one pass of the loop of train: et = make_token(); word2em[w] = et;
\* em2word[et] = w
AssignWord ==
    /\ run.pc = "assign" /\ run.next <= Len(run.most_common)
    /\ \E s \in Continuations(stream[run.seed], run.pos, run.used, MaxAttempts) :
          LET r == make_token(s, run.pos, run.used, MaxAttempts)
              w == run.most_common[run.next]
          IN  /\ stream' = [stream EXCEPT ![run.seed] = s]
              /\ run' = [run EXCEPT !.next = @ + 1,
                                    !.pos = r.pos, !.used = r.used,
                                    !.word2em = DictSet(@, w, r.tok),
                                    !.em2word = DictSet(@, r.tok, w)]
    /\ UNCHANGED <<clock, books, files, fbVars, codecVars, genVars>>

\* the return of train: the Codebook is built, created = time.time()
TrainFinish ==
    /\ run.pc = "assign" /\ run.next > Len(run.most_common)
    /\ \E now \in clock..MaxClock :
          /\ clock' = now
          /\ books' = Append(books,
                 [corpus |-> run.corpus, vocab_size |-> run.vocab_size,
                  seed |-> run.seed,
                  cb |-> Codebook(now, run.seed, run.vocab_size,
                                  run.word2em, run.em2word)])
    /\ run' = Idle
    /\ UNCHANGED <<stream, files, fbVars, codecVars, genVars>>

\* Codebook.save of the trained codebooks, in the order they were trained
Save ==
    /\ run.pc = "idle" /\ Len(files) < Len(books)
    /\ files' = Append(files, SaveData(books[Len(files) + 1].cb))
    /\ UNCHANGED <<stream, clock, run, books, fbVars, codecVars, genVars>>

TrainIdle ==
    /\ stream = [seed \in Seeds |-> <<>>]
    /\ clock = 0
    /\ run = Idle
    /\ books = <<>>
    /\ files = <<>>

(***************************************************************************)
(* Bytes, UTF-8 and hex.                                                   *)
(***************************************************************************)
\* the printable ASCII characters, from code 32 on
ASCII == <<" ","!","\"","#","$","%","&","'","(",")","*","+",",","-",".","/",
           "0","1","2","3","4","5","6","7","8","9",":",";","<","=",">","?",
           "@","A","B","C","D","E","F","G","H","I","J","K","L","M","N","O",
           "P","Q","R","S","T","U","V","W","X","Y","Z","[","\\","]","^","_",
           "U+0060","a","b","c","d","e","f","g","h","i","j","k","l","m","n","o",
           "p","q","r","s","t","u","v","w","x","y","z","{","|","}","~">>

\* the other characters of the model, with their code points
OTHER_CHARS ==
    << <<"U+00B5", 181>>, <<"U+00E9", 233>>, <<"⟦", 10214>>, <<"⟧", 10215>>,
       <<"⟨", 10216>>, <<"⟩", 10217>>, <<THEREFORE, 8756>>, <<"⇔", 8660>>,
       <<"«", 171>>, <<"U+00BB", 187>>, <<"U+4E2D", 20013>>,
       <<I_DOTTED, 304>>, <<DOT_ABOVE, 775>> >>

\* a character outside the model's tables
UNKNOWN_CHAR == "U+FFFD"

KnownChars ==
    Range(ASCII) \cup Range(GREEK_UPPER) \cup Range(GREEK_LOWER)
        \cup DictKeys(OTHER_CHARS)

\* ord(c) for the characters of the tables
CODE_POINTS ==
    [c \in KnownChars |->
        IF c \in Range(ASCII) THEN 31 + IndexOf(ASCII, c)
        ELSE IF c \in Range(GREEK_UPPER)
             THEN LET i == IndexOf(GREEK_UPPER, c)
                  IN  IF i <= 17 THEN 912 + i ELSE 913 + i
        ELSE IF c \in Range(GREEK_LOWER)
             THEN LET i == IndexOf(GREEK_LOWER, c)
                  IN  IF i <= 17 THEN 944 + i ELSE 945 + i
        ELSE DictGet(OTHER_CHARS, c)]

\* ord(c)
CodePoint(c) == IF c \in KnownChars THEN CODE_POINTS[c] ELSE 65533

\* chr(cp)
CharOf(cp) ==
    IF \E c \in KnownChars : CodePoint(c) = cp
    THEN CHOOSE c \in KnownChars : CodePoint(c) = cp
    ELSE UNKNOWN_CHAR

\* the UTF-8 bytes of one code point
Utf8OfCodePoint(cp) ==
    IF cp < 128 THEN <<cp>>
    ELSE IF cp < 2048 THEN <<192 + (cp \div 64), 128 + (cp % 64)>>
    ELSE IF cp < 65536
         THEN <<224 + (cp \div 4096), 128 + ((cp \div 64) % 64), 128 + (cp % 64)>>
    ELSE <<240 + (cp \div 262144), 128 + ((cp \div 4096) % 64),
           128 + ((cp \div 64) % 64), 128 + (cp % 64)>>

\* word.encode("utf-8")
Utf8Encode(w) == Concat([i \in DOMAIN w |-> Utf8OfCodePoint(CodePoint(w[i]))])

IsContinuation(b) == 128 <= b /\ b <= 191

\* the number of bytes of the UTF-8 sequence that starts at raw[i], 0 when
\* the bytes there are not a valid sequence (strict decoding: no overlong
\* form, no surrogate, nothing above U+10FFFF)
Utf8SeqLen(raw, i) ==
    LET b0     == raw[i]
        has(n) == /\ i + n - 1 <= Len(raw)
                  /\ \A k \in 1..(n - 1) : IsContinuation(raw[i + k])
    IN  IF b0 < 128 THEN 1
        ELSE IF 194 <= b0 /\ b0 <= 223 THEN (IF has(2) THEN 2 ELSE 0)
        ELSE IF 224 <= b0 /\ b0 <= 239
             THEN IF has(3) /\ (b0 = 224 => raw[i + 1] >= 160)
                            /\ (b0 = 237 => raw[i + 1] <= 159) THEN 3 ELSE 0
        ELSE IF 240 <= b0 /\ b0 <= 244
             THEN IF has(4) /\ (b0 = 240 => raw[i + 1] >= 144)
                            /\ (b0 = 244 => raw[i + 1] <= 143) THEN 4 ELSE 0
        ELSE 0

\* the code point of the valid n-byte sequence at raw[i]
Utf8CodePointAt(raw, i, n) ==
    IF n = 1 THEN raw[i]
    ELSE IF n = 2 THEN (raw[i] - 192) * 64 + (raw[i + 1] - 128)
    ELSE IF n = 3 THEN (raw[i] - 224) * 4096 + (raw[i + 1] - 128) * 64
                        + (raw[i + 2] - 128)
    ELSE (raw[i] - 240) * 262144 + (raw[i + 1] - 128) * 4096
           + (raw[i + 2] - 128) * 64 + (raw[i + 3] - 128)

\* raw.decode("utf-8"): ok is FALSE where Python raises UnicodeDecodeError
RECURSIVE Utf8DecodeFrom(_, _)
Utf8DecodeFrom(raw, i) ==
    IF i > Len(raw) THEN [ok |-> TRUE, text |-> <<>>]
    ELSE LET n == Utf8SeqLen(raw, i)
         IN  IF n = 0 THEN [ok |-> FALSE, text |-> <<>>]
             ELSE LET rest == Utf8DecodeFrom(raw, i + n)
                  IN  [ok |-> rest.ok,
                       text |-> <<CharOf(Utf8CodePointAt(raw, i, n))>> \o rest.text]

Utf8Decode(raw) == Utf8DecodeFrom(raw, 1)

HEX == <<"0","1","2","3","4","5","6","7","8","9","a","b","c","d","e","f">>

\* f"{b:02x}"
Hex02(b) == <<HEX[(b \div 16) + 1], HEX[(b % 16) + 1]>>

\* data.hex()
HexOfBytes(data) == Concat([i \in DOMAIN data |-> Hex02(data[i])])

HEX_CHARS == Range(HEX)

IsHexDigit(c) == LowerChar(c) \in HEX_CHARS

HexValue(c) == IndexOf(HEX, LowerChar(c)) - 1

\* bytes.fromhex(hex_str): ok is FALSE where Python raises ValueError
FromHex(h) ==
    IF Len(h) % 2 = 0 /\ \A i \in DOMAIN h : IsHexDigit(h[i])
    THEN [ok |-> TRUE,
          raw |-> [k \in 1..(Len(h) \div 2) |->
                      16 * HexValue(h[2 * k - 1]) + HexValue(h[2 * k])]]
    ELSE [ok |-> FALSE, raw |-> <<>>]

\* the modulus of Adler-32
ADLER_BASE == 65521

\* zlib.adler32(data)
RECURSIVE AdlerSums(_)
AdlerSums(data) ==
    IF data = <<>> THEN [a |-> 1, b |-> 0]
    ELSE LET n    == Len(data)
             prev == AdlerSums(SubSeq(data, 1, n - 1))
             a    == (prev.a + data[n]) % ADLER_BASE
         IN  [a |-> a, b |-> (prev.b + a) % ADLER_BASE]

adler32(data) == LET s == AdlerSums(data) IN s.b * 65536 + s.a

\* zlib.adler32(data) & 0xFF
crc8(data) == adler32(data) % 256

(***************************************************************************)
(* Fallback codec: _encode_fallback and _fallback_decode.                  *)
(***************************************************************************)
UNK == <<"[", "U", "N", "K", "]">>

\* what an operator yields where the Python function raises instead of
\* returning; no text equals it
EXCEPTION == <<"Exception">>

\* _encode_fallback with the two glyphs of every byte in the wrong order
encode_fallback_swapped(word, codebook) ==
    LET data    == Utf8Encode(word)
        hex_str == HexOfBytes(data)
        glyphs  == [i \in DOMAIN hex_str |->
                       LET j == IF i % 2 = 1 THEN i + 1 ELSE i - 1
                       IN  DictGet(codebook.hex2glyph, hex_str[j])]
    IN  <<"⟦">> \o glyphs \o <<"~">> \o Hex02(crc8(data)) \o <<"⟧">>

_encode_fallback(word, codebook) ==
    LET data    == Utf8Encode(word)
        hex_str == HexOfBytes(data)
        glyphs  == [i \in DOMAIN hex_str |->
                       IF DictHas(codebook.hex2glyph, hex_str[i])
                       THEN DictGet(codebook.hex2glyph, hex_str[i]) ELSE "α"]
        cc      == crc8(data)
    IN  <<"⟦">> \o glyphs \o <<"~">> \o Hex02(cc) \o <<"⟧">>

\* _fallback_decode without the try ... except around its body
fallback_decode_uncaught(glyphs, csum_hex, codebook) ==
    LET hex_map == codebook.glyph2hex
        hex_str == Concat([i \in DOMAIN glyphs |->
                       IF DictHas(hex_map, glyphs[i])
                       THEN <<DictGet(hex_map, glyphs[i])>> ELSE <<>>])
        parsed  == FromHex(hex_str)
        decoded == Utf8Decode(parsed.raw)
    IN  IF ~parsed.ok THEN EXCEPTION
        ELSE IF Hex02(crc8(parsed.raw)) # Lower(csum_hex) THEN UNK
        ELSE IF ~decoded.ok THEN EXCEPTION
        ELSE decoded.text

\* _fallback_decode without the comparison of the checksums
fallback_decode_unchecked(glyphs, csum_hex, codebook) ==
    LET hex_map == codebook.glyph2hex
        hex_str == Concat([i \in DOMAIN glyphs |->
                       IF DictHas(hex_map, glyphs[i])
                       THEN <<DictGet(hex_map, glyphs[i])>> ELSE <<>>])
        parsed  == FromHex(hex_str)
        decoded == Utf8Decode(parsed.raw)
    IN  IF ~parsed.ok THEN UNK
        ELSE IF ~decoded.ok THEN UNK
        ELSE decoded.text

\* _fallback_decode with hex_map[ch] in place of hex_map.get(ch, ""): a glyph
\* that is no key raises KeyError inside the try, and the block is [UNK]
fallback_decode_strict(glyphs, csum_hex, codebook) ==
    LET hex_map == codebook.glyph2hex
        known   == \A i \in DOMAIN glyphs : DictHas(hex_map, glyphs[i])
        hex_str == [i \in DOMAIN glyphs |->
                       IF known THEN DictGet(hex_map, glyphs[i]) ELSE "0"]
        parsed  == FromHex(hex_str)
        decoded == Utf8Decode(parsed.raw)
    IN  IF ~known \/ ~parsed.ok THEN UNK
        ELSE IF Hex02(crc8(parsed.raw)) # Lower(csum_hex) THEN UNK
        ELSE IF ~decoded.ok THEN UNK
        ELSE decoded.text

\* _fallback_decode comparing with csum_hex as written, not lowered
fallback_decode_cased(glyphs, csum_hex, codebook) ==
    LET hex_map == codebook.glyph2hex
        hex_str == Concat([i \in DOMAIN glyphs |->
                       IF DictHas(hex_map, glyphs[i])
                       THEN <<DictGet(hex_map, glyphs[i])>> ELSE <<>>])
        parsed  == FromHex(hex_str)
        decoded == Utf8Decode(parsed.raw)
    IN  IF ~parsed.ok THEN UNK
        ELSE IF Hex02(crc8(parsed.raw)) # csum_hex THEN UNK
        ELSE IF ~decoded.ok THEN UNK
        ELSE decoded.text

_fallback_decode(glyphs, csum_hex, codebook) ==
    LET hex_map == codebook.glyph2hex
        hex_str == Concat([i \in DOMAIN glyphs |->
                       IF DictHas(hex_map, glyphs[i])
                       THEN <<DictGet(hex_map, glyphs[i])>> ELSE <<>>])
        parsed  == FromHex(hex_str)
        decoded == Utf8Decode(parsed.raw)
    IN  IF ~parsed.ok THEN UNK
        ELSE IF Hex02(crc8(parsed.raw)) # Lower(csum_hex) THEN UNK
        ELSE IF ~decoded.ok THEN UNK
        ELSE decoded.text

\* GLYPH_BLOCK_RE matched at s[i]: the lengths of the match and of its first
\* group, n = 0 when there is no match.  The first group is the longest run
\* of characters other than "]" and "~"; no shorter run can be followed by "~".
RECURSIVE GlyphRun(_, _)
GlyphRun(s, i) ==
    IF i <= Len(s) /\ s[i] \notin {"]", "~"} THEN 1 + GlyphRun(s, i + 1) ELSE 0

BlockMatch(s, i) ==
    LET g == GlyphRun(s, i + 1)
        e == i + 1 + g
    IN  IF /\ s[i] = "⟦" /\ g >= 1 /\ e + 3 <= Len(s)
           /\ s[e] = "~" /\ IsHexDigit(s[e + 1]) /\ IsHexDigit(s[e + 2])
           /\ s[e + 3] = "⟧"
        THEN [n |-> g + 5, g |-> g]
        ELSE [n |-> 0, g |-> 0]

\* the glyphs of a fallback block
BlockGlyphs(block) == SubSeq(block, 2, Len(block) - 4)

Block(glyphs, csum_hex) == <<"⟦">> \o glyphs \o <<"~">> \o csum_hex \o <<"⟧">>

(***************************************************************************)
(* Joiner: smart_join.                                                     *)
(***************************************************************************)
PUNCT_CLOSE == {".", ",", "!", "?", ";", ":", ")", "]", "}", "%", "U+00BB"}

PUNCT_OPEN == {"(", "[", "{", "%", "«"}

\* [Α-Ωα-ω]
GREEK == Range(GREEK_UPPER) \cup Range(GREEK_LOWER)

IsGreek(c) == c \in GREEK

\* re.match(r"^\w|^⟦|^[Α-Ωα-ω]", tok)
StartsLikeWord(tok) ==
    tok # <<>> /\ (IsWordChar(tok[1]) \/ tok[1] = "⟦" \/ IsGreek(tok[1]))

\* re.match(f"^{_PUNCT_CLOSE}$", tok)
IsClosing(tok) == Len(tok) = 1 /\ tok[1] \in PUNCT_CLOSE

\* no token counts as opening punctuation
is_opening_never(tok) == FALSE

\* re.match(f"^{_PUNCT_OPEN}$", prev)
IsOpening(tok) == Len(tok) = 1 /\ tok[1] \in PUNCT_OPEN

\* the list out of smart_join after the first n tokens
RECURSIVE JoinItems(_, _)
JoinItems(tokens, n) ==
    IF n = 0 THEN <<>>
    ELSE LET out  == JoinItems(tokens, n - 1)
             tok  == tokens[n]
             prev == IF n = 1 THEN <<>> ELSE tokens[n - 1]
             add_space == /\ StartsLikeWord(tok)
                          /\ ~IsClosing(tok)
                          /\ ~(prev # <<>> /\ IsOpening(prev))
             last == out[Len(out)]
         IN  IF /\ add_space /\ out # <<>>
                /\ ~(last # <<>> /\ last[Len(last)] = " ")
             THEN out \o << <<" ">>, tok >>
             ELSE Append(out, tok)

\* re.sub(r"\s+(" + _PUNCT_CLOSE + r")", r"\1", s): a run of whitespace that
\* ends right before a closing character is removed
RECURSIVE SpaceRun(_, _)
SpaceRun(s, i) ==
    IF i <= Len(s) /\ IsSpace(s[i]) THEN 1 + SpaceRun(s, i + 1) ELSE 0

RECURSIVE CloseUp(_, _)
CloseUp(s, i) ==
    IF i > Len(s) THEN <<>>
    ELSE LET n == SpaceRun(s, i)
         IN  IF n > 0 /\ i + n <= Len(s) /\ s[i + n] \in PUNCT_CLOSE
             THEN CloseUp(s, i + n)
             ELSE IF n > 0 THEN SubSeq(s, i, i + n - 1) \o CloseUp(s, i + n)
             ELSE <<s[i]>> \o CloseUp(s, i + 1)

\* s.strip()
RECURSIVE Strip(_)
Strip(s) ==
    IF s = <<>> THEN s
    ELSE IF IsSpace(s[1]) THEN Strip(Tail(s))
    ELSE IF IsSpace(s[Len(s)]) THEN Strip(SubSeq(s, 1, Len(s) - 1))
    ELSE s

\* " ".join(tokens) in place of smart_join
smart_join_plain(tokens) == JoinWithSpaces(tokens)

smart_join(tokens) ==
    Strip(CloseUp(Concat(JoinItems(tokens, Len(tokens))), 1))

(***************************************************************************)
(* Encode pipeline: the steps of encode.                                   *)
(***************************************************************************)
\* unicodedata.normalize("NFKC", text); of the characters of the model only
\* the micro sign changes, to the Greek letter mu
normalize(text) ==
    [i \in DOMAIN text |-> IF text[i] = "U+00B5" THEN "μ" ELSE text[i]]

\* the item encode emits for token t, looked up without lowering it
encode_token_as_written(t, codebook) ==
    IF is_word(t)
    THEN IF DictHas(codebook.word2em, t) THEN DictGet(codebook.word2em, t)
         ELSE _encode_fallback(t, codebook)
    ELSE t

\* the item encode emits for token t
encode_token(t, codebook) ==
    IF is_word(t)
    THEN LET key == Lower(t)
         IN  IF DictHas(codebook.word2em, key)
             THEN DictGet(codebook.word2em, key)
             ELSE _encode_fallback(key, codebook)
    ELSE t

\* the list out of encode before any marker is added
encode_items(text, codebook) ==
    LET toks == tokenize_basic(normalize(text))
    IN  [i \in DOMAIN toks |-> encode_token(toks[i], codebook)]

MARKERS == << <<":", ":">>, <<THEREFORE>>, <<"⇔">> >>

(***************************************************************************)
(* Decode pipeline: the steps of decode.                                   *)
(***************************************************************************)
\* GLYPH_BLOCK_RE.sub(repl_block, s) from s[i] on
RECURSIVE SubBlocks(_, _, _)
SubBlocks(s, i, codebook) ==
    IF i > Len(s) THEN <<>>
    ELSE LET m    == BlockMatch(s, i)
             repl == IF m.n = 0 THEN <<s[i]>>
                     ELSE _fallback_decode(SubSeq(s, i + 1, i + m.g),
                              SubSeq(s, i + m.g + 2, i + m.g + 3), codebook)
             rest == SubBlocks(s, i + (IF m.n = 0 THEN 1 ELSE m.n), codebook)
         IN  IF repl = EXCEPTION \/ rest = EXCEPTION THEN EXCEPTION
             ELSE repl \o rest

\* s = GLYPH_BLOCK_RE.sub(repl_block, encoded); an exception of repl_block
\* leaves decode
decode_blocks(encoded, codebook) == SubBlocks(encoded, 1, codebook)

\* s.replace(old, new)
RECURSIVE ReplaceFrom(_, _, _, _)
ReplaceFrom(s, i, old, new) ==
    IF i > Len(s) THEN <<>>
    ELSE IF i + Len(old) - 1 <= Len(s) /\ SubSeq(s, i, i + Len(old) - 1) = old
         THEN new \o ReplaceFrom(s, i + Len(old), old, new)
         ELSE <<s[i]>> \o ReplaceFrom(s, i + 1, old, new)

\* for marker in ("::", "∴", "⇔"): s = s.replace(marker, " ")
decode_markers(s) ==
    LET s1 == ReplaceFrom(s, 1, MARKERS[1], <<" ">>)
        s2 == ReplaceFrom(s1, 1, MARKERS[2], <<" ">>)
    IN  ReplaceFrom(s2, 1, MARKERS[3], <<" ">>)

\* the operator characters of EMERG_TOKEN_RE
EMERG_OPS == OPS

\* [_EMERG_OPS α-ω]: the second group of EMERG_TOKEN_RE
EMERG_OPTIONAL == Range(EMERG_OPS) \cup Range(GREEK_LOWER)

\* EMERG_TOKEN_RE matched at s[i]: the length of the match, 0 for none
SymbolMatch(s, i) ==
    LET digits(j) == Min(DigitRun(s, j), 2)
    IN  IF ~IsGreek(s[i]) THEN 0
        ELSE IF /\ i + 1 <= Len(s)
                /\ s[i + 1] \in EMERG_OPTIONAL
                /\ digits(i + 2) > 0
             THEN 2 + digits(i + 2)
        ELSE IF digits(i + 1) > 0 THEN 1 + digits(i + 1)
        ELSE 0

\* EMERG_TOKEN_RE.sub(repl, text): _decode_emergent_tokens
RECURSIVE SubSymbols(_, _, _)
SubSymbols(s, i, em2word) ==
    IF i > Len(s) THEN <<>>
    ELSE LET n == SymbolMatch(s, i)
         IN  IF n = 0 THEN <<s[i]>> \o SubSymbols(s, i + 1, em2word)
             ELSE LET token == SubSeq(s, i, i + n - 1)
                  IN  (IF DictHas(em2word, token) THEN DictGet(em2word, token)
                       ELSE token) \o SubSymbols(s, i + n, em2word)

_decode_emergent_tokens(text, em2word) == SubSymbols(text, 1, em2word)

\* the end of decode without the pass through the tokenizer and the joiner
decode_join_raw(s) == s

\* toks = tokenize_basic(s); return smart_join(toks)
decode_join(s) == smart_join(tokenize_basic(s))

\* decode as one function
decode(encoded, codebook) ==
    LET s == decode_blocks(encoded, codebook)
    IN  IF s = EXCEPTION THEN EXCEPTION
        ELSE decode_join(_decode_emergent_tokens(decode_markers(s),
                                                 codebook.em2word))

(***************************************************************************)
(* One word through the fallback codec: encoded, possibly altered on the   *)
(* way, decoded.                                                           *)
(***************************************************************************)
\* the characters of the words given to the codec: one, two and three bytes
\* of UTF-8 each
FallbackAlphabet == {"a", "7", "ω", "U+4E2D"}

FallbackWords == SeqsUpTo(FallbackAlphabet, MaxWordLen) \ {<<>>}

\* a codebook with no vocabulary; the glyph tables are those of every codebook
EmptyBook == Codebook(0, 42, 0, <<>>, <<>>)

FbIdle == [pc |-> "idle"]

\* _encode_fallback(w, codebook) for a word w of words
FbEncodeOf(words) ==
    /\ fb.pc = "idle"
    /\ \E w \in words :
          fb' = [pc |-> "encoded", word |-> w, tampered |-> FALSE,
                 block |-> _encode_fallback(w, EmptyBook)]
    /\ UNCHANGED <<trainVars, codecVars, genVars>>

FbEncode == FbEncodeOf(FallbackWords)

\* the glyphs of one byte of the block are replaced by those of another byte
FbTamper ==
    /\ fb.pc = "encoded" /\ ~fb.tampered
    /\ \E k \in 1..Len(Utf8Encode(fb.word)), v \in 0..255 :
          LET new == [i \in 1..2 |-> DictGet(EmptyBook.hex2glyph, Hex02(v)[i])]
          IN  /\ <<fb.block[2 * k], fb.block[2 * k + 1]>> # new
              /\ fb' = [fb EXCEPT !.tampered = TRUE,
                                  !.block = [i \in DOMAIN fb.block |->
                                      IF i = 2 * k THEN new[1]
                                      ELSE IF i = 2 * k + 1 THEN new[2]
                                      ELSE fb.block[i]]]
    /\ UNCHANGED <<trainVars, codecVars, genVars>>

\* the block is matched by GLYPH_BLOCK_RE and handed to _fallback_decode
FbDecode ==
    /\ fb.pc = "encoded"
    /\ LET m == BlockMatch(fb.block, 1)
       IN  fb' = [pc |-> "decoded", word |-> fb.word, tampered |-> fb.tampered,
                  block |-> fb.block,
                  result |-> IF m.n = 0 THEN fb.block
                             ELSE _fallback_decode(
                                      SubSeq(fb.block, 2, 1 + m.g),
                                      SubSeq(fb.block, 3 + m.g, 4 + m.g),
                                      EmptyBook)]
    /\ UNCHANGED <<trainVars, codecVars, genVars>>

\* the words whose blocks get characters inserted: one, three and two bytes
\* of ASCII and of other UTF-8
GlyphWords == {<<"a">>, <<"d","o","g">>, <<"ω">>, <<"U+4E2D">>}

\* characters that are no keys of glyph2hex: a Latin letter, a Greek letter
\* past π, a space, and the bracket GLYPH_BLOCK_RE excludes
UnmappedChars == {"x", "ω", " ", "]"}

\* the glyphs handed to _fallback_decode, as they are or with characters
\* inserted
FbGlyphs == IF fb.pc = "encoded" THEN BlockGlyphs(fb.block) ELSE fb.glyphs

\* one character that is no key of glyph2hex is inserted into the glyphs of
\* the block, the checksum kept
FbInsert ==
    /\ fb.pc \in {"encoded", "padded"} /\ ~fb.tampered
    /\ Len(FbGlyphs) < Len(BlockGlyphs(fb.block)) + MaxInserted
    /\ \E k \in 0..Len(FbGlyphs), ch \in UnmappedChars :
          fb' = [pc |-> "padded", word |-> fb.word, tampered |-> FALSE,
                 block |-> fb.block,
                 glyphs |-> SubSeq(FbGlyphs, 1, k) \o <<ch>>
                              \o SubSeq(FbGlyphs, k + 1, Len(FbGlyphs))]
    /\ UNCHANGED <<trainVars, codecVars, genVars>>

\* _fallback_decode(glyphs, csum_hex, codebook) on the glyphs with the
\* insertions and the checksum digits of the block
FbDecodeGlyphs ==
    /\ fb.pc = "padded"
    /\ fb' = [pc |-> "resolved", word |-> fb.word, tampered |-> FALSE,
              block |-> fb.block, glyphs |-> fb.glyphs,
              result |-> _fallback_decode(fb.glyphs,
                             SubSeq(fb.block, Len(fb.block) - 2,
                                    Len(fb.block) - 1), EmptyBook)]
    /\ UNCHANGED <<trainVars, codecVars, genVars>>

(***************************************************************************)
(* Calls of encode and decode against one Codebook.                        *)
(***************************************************************************)
\* Codebook.train run to its end over the generator stream s, from the run
\* record r on
RECURSIVE AssignAll(_, _, _)
AssignAll(r, s, now) ==
    IF r.next > Len(r.most_common)
    THEN Codebook(now, r.seed, r.vocab_size, r.word2em, r.em2word)
    ELSE LET t == make_token(s, r.pos, r.used, MaxAttempts)
             w == r.most_common[r.next]
         IN  AssignAll([r EXCEPT !.next = @ + 1, !.pos = t.pos, !.used = t.used,
                                 !.word2em = DictSet(@, w, t.tok),
                                 !.em2word = DictSet(@, t.tok, w)], s, now)

train(corpus, vocab_size, seed, s, now) ==
    AssignAll(BeginTrain(corpus, vocab_size, seed), s, now)

\* the codebook of the example corpus with vocab_size 3, from a generator
\* that composes Ξ7, αβ42 and λ3: the -> Ξ7, cat -> αβ42, sat -> λ3
ExampleBook ==
    train(ExampleCorpus, 3, 42,
          << [a |-> "Ξ", b |-> <<>>, c |-> 7],
             [a |-> "α", b |-> <<"β">>, c |-> 42],
             [a |-> "λ", b |-> <<>>, c |-> 3] >>, 0)

CodecBooks == {ExampleBook}

\* "the cat the": with vocab_size 2 the vocabulary is the, cat
PipelineCorpus ==
    JoinWithSpaces(<< <<"t","h","e">>, <<"c","a","t">>, <<"t","h","e">> >>)

\* what the generator of that training run draws: an optional character that
\* is the opening delimiter of a block, a first letter that is a hex glyph, an
\* optional character that is a marker, and a letter with a number alone
PipelineDraws ==
    { [a |-> "Ψ", b |-> <<"⟦">>, c |-> 5], [a |-> "β", b |-> <<>>, c |-> 7],
      [a |-> "Φ", b |-> <<THEREFORE>>, c |-> 50], [a |-> "Ξ", b |-> <<>>, c |-> 7] }

\* the streams of the generator, as long as two calls of make_token can read
PipelineStreams == [1..(1 + MaxAttempts) -> PipelineDraws]

\* the codebooks Codebook.train returns for that corpus
TrainedBooks == {train(PipelineCorpus, 2, 42, s, 0) : s \in PipelineStreams}

\* the texts given to encode with a trained codebook: the words of the
\* vocabulary, a word outside it, and both side by side
PipelineTexts ==
    { <<"t","h","e">>, <<"c","a","t">>, <<"d","o","g">>,
      <<"t","h","e"," ","d","o","g">>, <<"d","o","g"," ","t","h","e">>,
      <<"t","h","e"," ","c","a","t"," ","d","o","g">>,
      <<"c","a","t",","," ","d","o","g">> }

\* the callers of encode and decode; they share the codebook
Callers == {1, 2}

\* the pieces the texts given to encode are made of: words of the
\* vocabulary, one of them capitalised, words outside it, punctuation,
\* white space and a token with an apostrophe
TextPieces ==
    { <<"t","h","e">>, <<"C","a","t">>, <<"d","o","g">>, <<"7">>,
      <<",">>, <<" ">>, <<"i","t","'","s">> }

\* "Hello, world!": neither word is in the vocabulary
HelloWorld ==
    <<"H","e","l","l","o",",", " ", "w","o","r","l","d","!">>

\* texts beyond the generated ones
MoreTexts ==
    { HelloWorld, <<I_DOTTED, "a">>,
      <<"(", "t","h","e", ")">>,
      <<"t","h","e", THEREFORE, "d","o","g">>,
      <<"a", ":", ":", "b">> }

Texts ==
    {Concat(ps) : ps \in SeqsUpTo(TextPieces, MaxTextPieces)} \cup MoreTexts

\* structure in units of 1/Levels: 0, 1/Levels and 1
Rates == {0, 1, Levels}

NoiseSeeds == {42}

\* everything a generator of encode can be seeded with
NoiseKeys == NoiseSeeds \cup (0..MaxClock)

\* rnd = random.Random(seed): what determines the generator
rnd_seed_from_time(seed, now) == now

rnd_seed(seed, now) == seed

\* One entry of the generator's stream: what rnd.random() returns there lies
\* in [lo/Levels, hi/Levels), and m is what rnd.choice picks there, 0 while
\* nothing has depended on it.  A comparison of rnd.random() with structure
\* that the interval does not settle narrows the interval.
Undrawn == [lo |-> 0, hi |-> Levels, m |-> 0]

Entry(s, p) == IF p <= Len(s) THEN s[p] ELSE Undrawn

Put(s, p, e) ==
    [i \in 1..(IF p > Len(s) THEN p ELSE Len(s)) |->
        IF i = p THEN e ELSE Entry(s, i)]

\* rnd.random() < structure at the entry e: the outcomes, each with the entry
\* as it is known afterwards
Below(e, structure) ==
    IF structure >= e.hi THEN {[below |-> TRUE, e |-> e]}
    ELSE IF structure <= e.lo THEN {[below |-> FALSE, e |-> e]}
    ELSE {[below |-> TRUE, e |-> [e EXCEPT !.hi = structure]],
          [below |-> FALSE, e |-> [e EXCEPT !.lo = structure]]}

\* the marker appended before the item it belongs to
salt_item_marker_first(tok, marker) == <<marker, tok>>

\* salted.append(tok); salted.append(rnd.choice(["::","∴","⇔"]))
salt_item(tok, marker) == <<tok, marker>>

\* The loop over out of encode from item i on, the generator standing at pos
\* of the stream s: every (salted, s) the loop can end with.
RECURSIVE Salted(_, _, _, _, _)
Salted(out, i, structure, s, pos) ==
    IF i > Len(out) THEN {[salted |-> <<>>, s |-> s]}
    ELSE UNION {
           LET s1 == Put(s, pos + 1, d.e)
           IN  IF d.below
               THEN LET e2 == Entry(s1, pos + 2)
                        ms == IF e2.m # 0 THEN {e2.m} ELSE 1..Len(MARKERS)
                    IN  UNION {
                          { [salted |-> salt_item(out[i], MARKERS[m]) \o r.salted,
                             s |-> r.s] :
                            r \in Salted(out, i + 1, structure,
                                    Put(s1, pos + 2, [e2 EXCEPT !.m = m]),
                                    pos + 2) } : m \in ms }
               ELSE { [salted |-> <<out[i]>> \o r.salted, s |-> r.s] :
                      r \in Salted(out, i + 1, structure, s1, pos + 1) }
           : d \in Below(Entry(s, pos + 1), structure) }

NoCall == [pc |-> "idle"]

\* the frame of a call of encode as it is entered
EncodeCall(text, structure, seed, again, before) ==
    [pc |-> "substitute", op |-> "encode", text |-> text,
     structure |-> structure, seed |-> seed, again |-> again,
     before |-> before, items |-> <<>>, out |-> <<>>, result |-> <<>>]

\* encode(text, codebook, structure, seed) is called
EncodeStart(c, texts) ==
    /\ call[c].pc = "idle"
    /\ \E text \in texts, structure \in Rates, seed \in NoiseSeeds :
          call' = [call EXCEPT ![c] =
                      EncodeCall(text, structure, seed, FALSE, <<>>)]
    /\ UNCHANGED <<cb, noise, trainVars, fbVars, genVars>>

\* encode is called once more with the arguments of the call that returned
EncodeAgain(c) ==
    /\ call[c].pc = "done" /\ call[c].op = "encode" /\ ~call[c].again
    /\ call' = [call EXCEPT ![c] =
                   EncodeCall(@.text, @.structure, @.seed, TRUE, @.result)]
    /\ UNCHANGED <<cb, noise, trainVars, fbVars, genVars>>

\* EncodeSubstitute keeping the block of every word outside the vocabulary
\* in word2em
EncodeSubstituteCaching(c) ==
    /\ call[c].pc = "substitute"
    /\ LET toks == tokenize_basic(normalize(call[c].text))
           out  == encode_items(call[c].text, cb)
           new  == {i \in DOMAIN toks :
                      is_word(toks[i]) /\ ~DictHas(cb.word2em, Lower(toks[i]))}
       IN  /\ call' = [call EXCEPT
                          ![c].pc = IF call[c].structure > 0 THEN "salt" ELSE "join",
                          ![c].items = out, ![c].out = out]
           /\ cb' = IF new = {} THEN cb
                    ELSE LET i == CHOOSE j \in new : TRUE
                         IN  [cb EXCEPT !.word2em = DictSet(@, Lower(toks[i]), out[i])]
    /\ UNCHANGED <<noise, trainVars, fbVars, genVars>>

\* lines 14-25 of encode: normalize, tokenize, one item per token
EncodeSubstitute(c) ==
    /\ call[c].pc = "substitute"
    /\ LET out == encode_items(call[c].text, cb)
       IN  call' = [call EXCEPT
                       ![c].pc = IF call[c].structure > 0 THEN "salt" ELSE "join",
                       ![c].items = out, ![c].out = out]
    /\ UNCHANGED <<cb, noise, trainVars, fbVars, genVars>>

\* lines 26-33 of encode: a marker after an item where the generator says so
EncodeSalt(c) ==
    /\ call[c].pc = "salt"
    /\ LET key == rnd_seed(call[c].seed, clock)
       IN  \E r \in Salted(call[c].out, 1, call[c].structure, noise[key], 0) :
              /\ call' = [call EXCEPT ![c].pc = "join", ![c].out = r.salted]
              /\ noise' = [noise EXCEPT ![key] = r.s]
    /\ UNCHANGED <<cb, trainVars, fbVars, genVars>>

\* return smart_join(out)
EncodeJoin(c) ==
    /\ call[c].pc = "join"
    /\ call' = [call EXCEPT ![c].pc = "done",
                            ![c].result = smart_join(call[c].out)]
    /\ UNCHANGED <<cb, noise, trainVars, fbVars, genVars>>

\* time passes between a call of encode and its repetition
TimePasses ==
    /\ clock < MaxClock
    /\ \E c \in Callers :
          call[c].pc = "done" /\ call[c].op = "encode" /\ ~call[c].again
    /\ clock' = clock + 1
    /\ UNCHANGED <<stream, run, books, files, fbVars, codecVars, genVars>>

(***************************************************************************)
(* Strings given to decode.                                                *)
(***************************************************************************)
\* the block of the word dog, and the same glyphs under another checksum
GoodBlock == _encode_fallback(<<"d","o","g">>, EmptyBook)

BadSumBlock == Block(BlockGlyphs(GoodBlock), <<"0","0">>)

\* three glyphs: a hex payload of odd length
OddBlock == Block(<<"η","β","ζ">>, <<"0","0">>)

\* the byte ff under its own checksum: not UTF-8
NotUtf8Block == Block(<<"π","π">>, Hex02(crc8(<<255>>)))

\* the block of cl with its checksum d0 written in upper case
UpperSumBlock ==
    Block(BlockGlyphs(_encode_fallback(<<"c","l">>, EmptyBook)), <<"D","0">>)

\* the block of dog with one checksum digit in upper case: ~3B
MixedSumBlock == Block(BlockGlyphs(GoodBlock), <<"3","B">>)

\* the block of child: the checksum 5 is written 05
PaddedSumBlock == _encode_fallback(<<"c","h","i","l","d">>, EmptyBook)

\* a string of the shape of a symbol that is no key of the example codebook
UnknownSymbol == <<"Ξ", "8">>

\* the pieces the strings given to decode are made of
EncodedPieces ==
    { <<"Ξ","7">>, <<"α","β","4","2">>, MARKERS[1], MARKERS[2], <<" ">>,
      <<":">>, GoodBlock, BadSumBlock }

\* two symbols of the vocabulary with a run of markers between them
MarkerRuns ==
    { << <<"Ξ","7">> >> \o markers \o << <<"α","β","4","2">> >> :
        markers \in SeqsUpTo(Range(MARKERS), MaxRun) \ {<<>>} }

\* strings beyond the generated ones
MoreEncoded ==
    { <<OddBlock>>, <<NotUtf8Block>>, <<OddBlock, NotUtf8Block>>,
      <<UnknownSymbol>>, << <<"Ξ","7">>, <<",">>, UnknownSymbol, <<"!">> >>,
      <<UpperSumBlock>>, <<PaddedSumBlock>>,
      << <<"Ξ","7">>, <<" ">>, MixedSumBlock, MARKERS[1], UpperSumBlock >> }
        \cup MarkerRuns

\* what decode is given, as the pieces it is made of
EncodedInputs == SeqsUpTo(EncodedPieces, MaxEncodedPieces) \cup MoreEncoded

\* the frame of a call of decode as it is entered; from is the call of encode
\* whose result is being decoded, if any
DecodeCall(pieces, from) ==
    [pc |-> "blocks", op |-> "decode", pieces |-> pieces, from |-> from,
     encoded |-> Concat(pieces), s |-> <<>>, result |-> <<>>]

\* decode(encoded, codebook) is called
DecodeStart(c, inputs) ==
    /\ call[c].pc = "idle"
    /\ \E pieces \in inputs :
          call' = [call EXCEPT ![c] = DecodeCall(pieces, NoCall)]
    /\ UNCHANGED <<cb, noise, trainVars, fbVars, genVars>>

\* decode(encode(text, codebook, structure, seed), codebook): decode is called
\* with the string a call of encode has returned
DecodeOutput(c) ==
    /\ call[c].pc = "done" /\ call[c].op = "encode"
    /\ call' = [call EXCEPT ![c] = DecodeCall(<<call[c].result>>, call[c])]
    /\ UNCHANGED <<cb, noise, trainVars, fbVars, genVars>>

\* s = GLYPH_BLOCK_RE.sub(repl_block, encoded)
DecodeBlocks(c) ==
    /\ call[c].pc = "blocks"
    /\ LET s == decode_blocks(call[c].encoded, cb)
       IN  call' = IF s = EXCEPTION
                   THEN [call EXCEPT ![c].pc = "raised"]
                   ELSE [call EXCEPT ![c].pc = "markers", ![c].s = s]
    /\ UNCHANGED <<cb, noise, trainVars, fbVars, genVars>>

\* for marker in ("::", "∴", "⇔"): s = s.replace(marker, " ")
DecodeMarkers(c) ==
    /\ call[c].pc = "markers"
    /\ call' = [call EXCEPT ![c].pc = "symbols",
                            ![c].s = decode_markers(call[c].s)]
    /\ UNCHANGED <<cb, noise, trainVars, fbVars, genVars>>

\* s = _decode_emergent_tokens(s, codebook.em2word)
DecodeSymbols(c) ==
    /\ call[c].pc = "symbols"
    /\ call' = [call EXCEPT ![c].pc = "tokens",
                            ![c].s = _decode_emergent_tokens(call[c].s,
                                                             cb.em2word)]
    /\ UNCHANGED <<cb, noise, trainVars, fbVars, genVars>>

\* toks = tokenize_basic(s); return smart_join(toks)
DecodeJoin(c) ==
    /\ call[c].pc = "tokens"
    /\ call' = [call EXCEPT ![c].pc = "done",
                            ![c].result = decode_join(call[c].s)]
    /\ UNCHANGED <<cb, noise, trainVars, fbVars, genVars>>

CodecIdle ==
    /\ cb = EmptyBook
    /\ call = [c \in Callers |-> NoCall]
    /\ noise = [k \in NoiseKeys |-> <<>>]

(***************************************************************************)
(* The single-file variant: encode_text and decode_text of emer_lang.py    *)
(* (emlang.py has the same statements).                                    *)
(***************************************************************************)
\* the length of the run of \w characters of s from s[i] on
RECURSIVE WordCharRun(_, _)
WordCharRun(s, i) ==
    IF i <= Len(s) /\ IsWordChar(s[i]) THEN 1 + WordCharRun(s, i + 1) ELSE 0

\* WORD_RE.findall(text) with WORD_RE = \w+|[^\w\s], from text[i] on
RECURSIVE TokenizeTextFrom(_, _)
TokenizeTextFrom(s, i) ==
    IF i > Len(s) THEN <<>>
    ELSE LET n == WordCharRun(s, i)
         IN  IF n > 0
             THEN <<SubSeq(s, i, i + n - 1)>> \o TokenizeTextFrom(s, i + n)
             ELSE IF IsSpace(s[i]) THEN TokenizeTextFrom(s, i + 1)
             ELSE << <<s[i]>> >> \o TokenizeTextFrom(s, i + 1)

tokenize(text) == TokenizeTextFrom(text, 1)

\* is_word of the single file: re.match(r"^\w+$", tok)
is_word_text(tok) == tok # <<>> /\ \A i \in DOMAIN tok : IsWordChar(tok[i])

\* the block of a word: its hex glyphs between the delimiters, no checksum
fallback_encode_word(word, codebook) ==
    LET data   == HexOfBytes(Utf8Encode(word))
        glyphs == [i \in DOMAIN data |->
                      IF DictHas(codebook.hex2glyph, data[i])
                      THEN DictGet(codebook.hex2glyph, data[i]) ELSE "α"]
    IN  <<"⟦">> \o glyphs \o <<"⟧">>

fallback_decode_word(glyph_block, codebook) ==
    LET hex_str == Concat([i \in DOMAIN glyph_block |->
                       IF DictHas(codebook.glyph2hex, glyph_block[i])
                       THEN <<DictGet(codebook.glyph2hex, glyph_block[i])>>
                       ELSE <<>>])
        parsed  == FromHex(hex_str)
        decoded == Utf8Decode(parsed.raw)
    IN  IF ~parsed.ok \/ ~decoded.ok THEN UNK ELSE decoded.text

\* the list out of encode_text before any marker is added
encode_text_items(text, codebook) ==
    LET toks == tokenize(text)
    IN  [i \in DOMAIN toks |->
            IF is_word_text(toks[i])
            THEN LET key == Lower(toks[i])
                 IN  IF DictHas(codebook.word2em, key)
                     THEN DictGet(codebook.word2em, key)
                     ELSE fallback_encode_word(key, codebook)
            ELSE toks[i]]

\* maybe_insert_structure(encoded_tokens, strength, seed) over the stream s of
\* the generator: the loop is that of encode
maybe_insert_structure(encoded_tokens, strength, s) ==
    Salted(encoded_tokens, 1, strength, s, 0)

\* re.match(r"^[.,!?;:)]$", tok)
IsClosingText(tok) ==
    Len(tok) = 1 /\ tok[1] \in {".", ",", "!", "?", ";", ":", ")"}

\* the list buf of encode_text after the first n tokens of out
RECURSIVE JoinBuf(_, _)
JoinBuf(out, n) ==
    IF n = 0 THEN <<>>
    ELSE LET tok  == out[n]
             b0   == JoinBuf(out, n - 1)
             b1   == IF n > 1 /\ StartsLikeWord(tok) THEN Append(b0, <<" ">>)
                     ELSE b0
             last == b1[Len(b1)]
             b2   == IF /\ b1 # <<>> /\ last # <<>> /\ last[Len(last)] = " "
                        /\ IsClosingText(tok)
                     THEN [b1 EXCEPT ![Len(b1)] = SubSeq(last, 1, Len(last) - 1)]
                     ELSE b1
         IN  Append(b2, tok)

\* return "".join(buf).strip()
encode_text_join(out) == Strip(Concat(JoinBuf(out, Len(out))))

\* GLYPH_BLOCK_RE of the single file matched at s[i]: the number of glyphs
\* between the delimiters, 0 for no match
RECURSIVE HexGlyphRun(_, _)
HexGlyphRun(s, i) ==
    IF i <= Len(s) /\ s[i] \in DictValues(HEX_DIGIT_TO_GLYPH)
    THEN 1 + HexGlyphRun(s, i + 1) ELSE 0

GlyphBlockMatch(s, i) ==
    LET g == HexGlyphRun(s, i + 1)
    IN  IF s[i] = "⟦" /\ g >= 1 /\ i + g + 1 <= Len(s) /\ s[i + g + 1] = "⟧"
        THEN g ELSE 0

\* GLYPH_BLOCK_RE.sub(replace_block, encoded) from encoded[i] on
RECURSIVE SubTextBlocks(_, _, _)
SubTextBlocks(s, i, codebook) ==
    IF i > Len(s) THEN <<>>
    ELSE LET g == GlyphBlockMatch(s, i)
         IN  IF g = 0 THEN <<s[i]>> \o SubTextBlocks(s, i + 1, codebook)
             ELSE fallback_decode_word(SubSeq(s, i + 1, i + g), codebook)
                      \o SubTextBlocks(s, i + g + 2, codebook)

\* the loop over tokens of decode_text: the word of a key of em2word, a space
\* for a token that is a marker, the token otherwise
decode_text_tokens(tokens, codebook) ==
    [i \in DOMAIN tokens |->
        IF DictHas(codebook.em2word, tokens[i])
        THEN DictGet(codebook.em2word, tokens[i])
        ELSE IF tokens[i] \in Range(MARKERS) THEN <<" ">>
        ELSE tokens[i]]

\* the string text of decode_text after the first n tokens of out
RECURSIVE SpacedText(_, _)
SpacedText(out, n) ==
    IF n = 0 THEN <<>>
    ELSE LET tok == out[n]
             t0  == SpacedText(out, n - 1)
             t1  == IF n > 1 /\ tok # <<>> /\ IsWordChar(tok[1])
                    THEN Append(t0, " ") ELSE t0
             t2  == IF t1 # <<>> /\ t1[Len(t1)] = " " /\ IsClosingText(tok)
                    THEN SubSeq(t1, 1, Len(t1) - 1) ELSE t1
         IN  t2 \o tok

decode_text(encoded, codebook) ==
    LET out == decode_text_tokens(
                   tokenize(SubTextBlocks(encoded, 1, codebook)), codebook)
    IN  Strip(SpacedText(out, Len(out)))

\* encode_text(text, codebook, structure, seed) from its call to its return
EncodeText(c, texts) ==
    /\ call[c].pc = "idle"
    /\ \E text \in texts, structure \in Rates, seed \in NoiseSeeds :
          LET items == encode_text_items(text, cb)
              outs  == IF structure > 0
                       THEN maybe_insert_structure(items, structure, noise[seed])
                       ELSE {[salted |-> items, s |-> noise[seed]]}
          IN  \E r \in outs :
                 /\ call' = [call EXCEPT ![c] =
                       [pc |-> "encoded", op |-> "encode_text", text |-> text,
                        structure |-> structure, seed |-> seed,
                        items |-> items, out |-> r.salted,
                        result |-> encode_text_join(r.salted)]]
                 /\ noise' = [noise EXCEPT ![seed] = r.s]
    /\ UNCHANGED <<cb, trainVars, fbVars, genVars>>

\* decode_text(encoded, codebook) on what encode_text returned
DecodeText(c) ==
    /\ call[c].pc = "encoded" /\ call[c].op = "encode_text"
    /\ call' = [call EXCEPT ![c] =
          [pc |-> "decoded", op |-> "decode_text", from |-> call[c],
           encoded |-> call[c].result,
           result |-> decode_text(call[c].result, cb)]]
    /\ UNCHANGED <<cb, noise, trainVars, fbVars, genVars>>

(***************************************************************************)
(* Properties of the fallback codec.                                       *)
(***************************************************************************)
\* the number of UTF-8 bytes of a word, counted from its code points
ByteCount(w) ==
    LET size(c) == IF CodePoint(c) < 128 THEN 1
                   ELSE IF CodePoint(c) < 2048 THEN 2
                   ELSE IF CodePoint(c) < 65536 THEN 3 ELSE 4
        sum[i \in 0..Len(w)] == IF i = 0 THEN 0 ELSE sum[i - 1] + size(w[i])
    IN  sum[Len(w)]

\* C4: the block of a non-empty word w is "⟦", two hex glyphs per UTF-8 byte
\* of w, "~", two lowercase hex digits, "⟧"; decoded untouched it gives w.
C4_FallbackRoundTrip ==
    (fb.pc # "idle" /\ ~fb.tampered) =>
        LET n == ByteCount(fb.word)
            b == fb.block
        IN  /\ n >= 1 /\ Len(b) = 2 * n + 5
            /\ b[1] = "⟦" /\ b[2 * n + 2] = "~" /\ b[2 * n + 5] = "⟧"
            /\ \A i \in 2..(2 * n + 1) : b[i] \in DictValues(HEX_DIGIT_TO_GLYPH)
            /\ b[2 * n + 3] \in Range(HEX) /\ b[2 * n + 4] \in Range(HEX)
            /\ fb.pc = "decoded" => fb.result = fb.word

\* a word with a character of several bytes has come back.
C4_Witness ==
    /\ fb.pc = "decoded" /\ ~fb.tampered
    /\ ByteCount(fb.word) > Len(fb.word)
    /\ fb.result = fb.word

\* C5: a block in which the glyphs of one byte were replaced by those of
\* another byte (one glyph or both), the checksum digits kept, decodes to
\* [UNK].
C5_ChecksumSensitivity ==
    (fb.pc = "decoded" /\ fb.tampered) => fb.result = UNK

\* an altered block was refused although its bytes are the UTF-8
\* of a word other than the original: the checksum is what refused it.
C5_Witness ==
    /\ fb.pc = "decoded" /\ fb.tampered /\ fb.result = UNK
    /\ LET n == ByteCount(fb.word)
           other == fallback_decode_unchecked(SubSeq(fb.block, 2, 2 * n + 1),
                                              <<>>, EmptyBook)
       IN  other # UNK /\ other # fb.word

\* C23: with characters that are no keys of glyph2hex inserted anywhere in
\* the glyphs of a well-formed block, the checksum digits kept,
\* _fallback_decode returns the word it returns for the glyphs without them:
\* the word of the block, never [UNK] and never an exception.
C23_UnmappedGlyphsDropped ==
    fb.pc = "resolved" =>
        /\ fb.result = _fallback_decode(BlockGlyphs(fb.block),
                            SubSeq(fb.block, Len(fb.block) - 2,
                                   Len(fb.block) - 1), EmptyBook)
        /\ fb.result = fb.word
        /\ fb.result # UNK /\ fb.result # EXCEPTION

\* two characters were inserted, one of them the bracket, one of them before
\* the first glyph, and the word of more than one byte came back
C23_Witness ==
    /\ fb.pc = "resolved" /\ fb.result = fb.word
    /\ Len(fb.glyphs) = Len(BlockGlyphs(fb.block)) + 2
    /\ Len(fb.word) = 1 /\ ByteCount(fb.word) > 1
    /\ fb.glyphs[1] \in UnmappedChars /\ "]" \in Range(fb.glyphs)

C2_SameArgumentsSameCodebook ==
    \A i, j \in DOMAIN books :
        (/\ books[i].corpus = books[j].corpus
         /\ books[i].vocab_size = books[j].vocab_size
         /\ books[i].seed = books[j].seed)
        => /\ books[i].cb = books[j].cb
           /\ (i \in DOMAIN files /\ j \in DOMAIN files) => files[i] = files[j]

\* the words of a corpus in rank order: v comes before w when it
\* occurs more often, or as often and first
WordsBefore(words, w) ==
    LET count(v) == Cardinality({i \in DOMAIN words : words[i] = v})
        first(v) == CHOOSE i \in DOMAIN words :
                        words[i] = v /\ \A j \in 1..(i - 1) : words[j] # v
    IN  {v \in Range(words) :
            \/ count(v) > count(w)
            \/ count(v) = count(w) /\ first(v) < first(w)}

TopWords(words, n) ==
    {w \in Range(words) : Cardinality(WordsBefore(words, w)) < n}

ExampleTop == {<<"t","h","e">>, <<"c","a","t">>, <<"s","a","t">>}

\* C6: the keys of word2em are exactly the vocab_size most frequent lowercased
\* word-like tokens of the corpus (descending count, ties by first
\* occurrence), min(vocab_size, distinct words) of them; for the example
\* corpus and vocab_size 3 they are the, cat, sat.
C6_VocabularyCoverage ==
    \A n \in DOMAIN books :
        LET b     == books[n]
            words == CorpusWords(b.corpus)
            keys  == DictKeys(b.cb.word2em)
        IN  /\ keys = TopWords(words, b.vocab_size)
            /\ Len(b.cb.word2em) = Min(b.vocab_size, Cardinality(Range(words)))
            /\ Cardinality(keys) = Len(b.cb.word2em)
            /\ (b.corpus = ExampleCorpus /\ b.vocab_size = 3) => keys = ExampleTop

\* the example corpus has been trained with vocab_size 3: six
\* distinct words, four of them tied, three kept.
C6_Witness ==
    \E n \in DOMAIN books :
        /\ books[n].corpus = ExampleCorpus
        /\ Cardinality(Range(CorpusWords(books[n].corpus))) = 6
        /\ DictKeys(books[n].cb.word2em) = ExampleTop

\* a step of the loop of train: one call of make_token
IsAssignStep == run.pc = "assign" /\ run'.pc = "assign" /\ run'.next = run.next + 1

\* what that call of make_token returned
LastCall == make_token(stream'[run.seed], run.pos, run.used, MaxAttempts)

\* str(c) for every c that randint(0, 99) returns
NUMBERS == {Str(n) : n \in 0..RANDINT_MAX}

\* the characters rnd.choice(OPS) and rnd.choice(GREEK_LOWER) return
OPTIONAL == Range(OPS) \cup Range(GREEK_LOWER)

\* t has the form [Letter][Optional][Digits] of a composed symbol
Composable(t) ==
    /\ Len(t) >= 2 /\ t[1] \in GREEK
    /\ \/ Tail(t) \in NUMBERS
       \/ t[2] \in OPTIONAL /\ Tail(Tail(t)) \in NUMBERS

\* the stream s followed by n draws that compose no symbol of the alphabet
Padded(s, n) == s \o [i \in 1..n |-> [a |-> "?", b |-> <<>>, c |-> 0]]

\* the symbols n calls of make_token return on a generator fresh from
\* _token_factory that reads the stream s, nothing else running
RECURSIVE IssuedAlone(_, _, _, _)
IssuedAlone(s, pos, used, n) ==
    IF n = 0 THEN <<>>
    ELSE LET r == make_token(s, pos, used, MaxAttempts)
         IN  <<r.tok>> \o IssuedAlone(s, r.pos, r.used, n - 1)

\* C14: the symbols a run has received from its generator, its calls
\* interleaved with those of the other run, are the symbols the generator of
\* its seed returns to a run on its own; what the other run was issued is
\* not rejected.
C14_GeneratorIsolation ==
    \A g \in Instances :
        gens[g].pc = "ready" =>
            LET n == Len(gens[g].issued)
            IN  gens[g].issued =
                    IssuedAlone(Padded(stream[gens[g].seed], n * MaxAttempts),
                                0, {}, n)

\* both runs, of one seed, have received the same two symbols
C14_Witness ==
    /\ gens[1].pc = "ready" /\ gens[2].pc = "ready"
    /\ Len(gens[1].issued) = 2 /\ gens[2].issued = gens[1].issued
    /\ gens[1].used = gens[2].used

\* the word of rank i: i - 1 words come before it
WordOfRank(words, i) ==
    CHOOSE w \in Range(words) : Cardinality(WordsBefore(words, w)) = i - 1

\* C15: in every codebook train returns, the i-th entry of word2em is the
\* word of rank i (1 = most frequent, ties by first occurrence) with the
\* i-th symbol a generator fresh from the training seed returns; the symbol
\* is a function of the seed and the rank.
C15_RankOrderAssignment ==
    \A n \in DOMAIN books :
        LET b     == books[n]
            words == CorpusWords(b.corpus)
            w2e   == b.cb.word2em
            syms  == IssuedAlone(stream[b.seed], 0, {}, Len(w2e))
        IN  \A i \in DOMAIN w2e :
                /\ w2e[i][1] = WordOfRank(words, i)
                /\ w2e[i][2] = syms[i]

\* the example corpus has been trained with vocab_size 3: the word "the" has
\* the first symbol of the stream, and three symbols are assigned
C15_Witness ==
    \E n \in DOMAIN books :
        LET w2e == books[n].cb.word2em
        IN  /\ books[n].corpus = ExampleCorpus /\ Len(w2e) = 3
            /\ w2e[1] = << <<"t","h","e">>, Compose(stream[books[n].seed][1]) >>
            /\ w2e[2][1] = <<"c","a","t">> /\ w2e[2][2] # w2e[1][2]

\* C16: a symbol composed by make_token is one of the 48 Greek letters, then
\* nothing or one character of OPS or of the 24 lowercase letters, then the
\* decimal digits of a number in 0..99 without leading zero; it has 2 to 4
\* characters and EMERG_TOKEN_RE matches all of it.
C16_SymbolShape ==
    \A i \in DOMAIN gens[1].issued :
        LET t == gens[1].issued[i]
        IN  /\ Composable(t)
            /\ Len(t) \in 2..4
            /\ SymbolMatch(t, 1) = Len(t)

\* the longest symbol: a letter, an operator character and two digits
C16_Witness ==
    /\ gens[1].pc = "ready"
    /\ gens[1].issued = << <<"ω", "⟦", "9", "9">> >>

\* C17: the string a call of make_token composed and returned was not issued
\* before in the run and is not reserved, every attempt of the call before
\* it composed a string that was, and used has grown by one element; no
\* symbol of a codebook is a member of the reserved set.
C17_RejectAndRetry ==
    /\ [][(IsAssignStep /\ LastCall.composed) =>
             LET s == stream'[run.seed]
             IN  /\ LastCall.tok = Compose(s[run'.pos])
                 /\ LastCall.tok \notin run.used /\ LastCall.tok \notin RESERVED
                 /\ \A p \in (run.pos + 1)..(run'.pos - 1) :
                       Compose(s[p]) \in run.used \cup RESERVED
                 /\ run'.used = run.used \cup {LastCall.tok}
                 /\ Cardinality(run'.used) = Cardinality(run.used) + 1]_vars
    /\ [](\A n \in DOMAIN books :
             DictValues(books[n].cb.word2em) \cap RESERVED = {})

\* the second call of a run has composed the symbol of the first word again,
\* retried, and returned another symbol
C17_Witness ==
    /\ run.pc = "assign" /\ Len(run.word2em) = 2 /\ run.pos = 3
    /\ Compose(stream[run.seed][2]) = run.word2em[1][2]
    /\ Compose(stream[run.seed][3]) = run.word2em[2][2]
    /\ run.word2em[2][2] # run.word2em[1][2]
    /\ Cardinality(run.used) = 2

\* C18: a call of make_token makes at least one and at most MaxAttempts
\* attempts (10,000 in the source) whatever used holds, train calls it at
\* most vocab_size times, and every call of train returns.
C18_BoundedRetry ==
    /\ [][IsAssignStep => (run'.pos - run.pos) \in 1..MaxAttempts]_vars
    /\ [](run.pc = "assign" => run.next - 1 <= run.vocab_size)
    /\ (run.pc = "assign" ~> run.pc = "idle")

\* train has returned after a call of make_token in which every attempt
\* composed the one symbol issued before
C18_Witness ==
    /\ run.pc = "idle" /\ Len(books) = 1
    /\ Len(books[1].cb.word2em) = 2
    /\ LET s == stream[books[1].seed]
       IN  /\ Len(s) = 1 + MaxAttempts
           /\ \A p \in DOMAIN s : s[p] = s[1]

Returned(c, op) == call[c].pc = "done" /\ call[c].op = op

\* C3: encode is a function of its arguments: a call with the text,
\* codebook, structure and seed of an earlier call returns the string the
\* earlier call returned.
C3_EncodeDeterministic ==
    \A c \in Callers :
        Returned(c, "encode") /\ call[c].again
            => call[c].result = call[c].before

\* a repetition, later in time, of a call that put a marker after some items
\* and none after others
C3_Witness ==
    \E c \in Callers :
        /\ Returned(c, "encode") /\ call[c].again /\ clock > 0
        /\ call[c].structure \in 1..(Levels - 1)
        /\ Len(call[c].items) < Len(call[c].out)
        /\ Len(call[c].out) < 2 * Len(call[c].items)

\* the blocks GLYPH_BLOCK_RE finds in s from s[i] on, left to right
RECURSIVE BlocksFrom(_, _)
BlocksFrom(s, i) ==
    IF i > Len(s) THEN <<>>
    ELSE LET m == BlockMatch(s, i)
         IN  IF m.n = 0 THEN BlocksFrom(s, i + 1)
             ELSE <<[glyphs |-> SubSeq(s, i + 1, i + m.g),
                     csum |-> SubSeq(s, i + m.g + 2, i + m.g + 3)]>>
                      \o BlocksFrom(s, i + m.n)

\* the payload of the block has odd length, or its checksum is not the one
\* written in the block, or it is not UTF-8
Damaged(b) ==
    LET hex_str == Concat([i \in DOMAIN b.glyphs |->
                       IF DictHas(GLYPH_TO_HEX, b.glyphs[i])
                       THEN <<DictGet(GLYPH_TO_HEX, b.glyphs[i])>> ELSE <<>>])
        raw == FromHex(hex_str).raw
    IN  \/ Len(hex_str) % 2 = 1
        \/ Hex02(crc8(raw)) # Lower(b.csum)
        \/ ~Utf8Decode(raw).ok

Occurrences(s, t) ==
    Cardinality({i \in 1..(Len(s) - Len(t) + 1) : SubSeq(s, i, i + Len(t) - 1) = t})

DamagedBlocks(encoded) ==
    LET bs == BlocksFrom(encoded, 1)
    IN  Cardinality({i \in DOMAIN bs : Damaged(bs[i])})

\* C7: decode never raises, and every block found in the input whose
\* checksum differs from the one recomputed, or whose payload has odd length
\* or is not UTF-8, appears as the text [UNK] in the string returned.
C7_DecodeNeverFails ==
    \A c \in Callers :
        /\ call[c].pc # "raised"
        /\ Returned(c, "decode")
              => Occurrences(call[c].result, UNK)
                     >= DamagedBlocks(call[c].encoded)

\* decode has returned [UNK][UNK] for a block of odd length followed by a
\* block that is not UTF-8
C7_Witness ==
    \E c \in Callers :
        /\ Returned(c, "decode")
        /\ call[c].pieces = <<OddBlock, NotUtf8Block>>
        /\ DamagedBlocks(call[c].encoded) = 2
        /\ call[c].result = UNK \o UNK

\* C8: the items of encode before markers are one per token: the symbol of
\* the lowered token when the token is word-like and in the vocabulary, the
\* fallback block of the lowered token when it is word-like and not in the
\* vocabulary, the token itself otherwise; no word-like token is emitted as
\* it stands.
C8_SubstitutionTotalExact ==
    \A c \in Callers :
        call[c].pc \in {"salt", "join", "done"} /\ call[c].op = "encode" =>
            LET toks  == tokenize_basic(normalize(call[c].text))
                items == call[c].items
            IN  /\ Len(items) = Len(toks)
                /\ \A i \in DOMAIN toks :
                      LET key == Lower(toks[i])
                      IN  IF is_word(toks[i])
                          THEN /\ items[i] # toks[i]
                               /\ ~is_word(items[i])
                               /\ items[i] =
                                     IF key \in DictKeys(cb.word2em)
                                     THEN DictGet(cb.word2em, key)
                                     ELSE Block(BlockGlyphs(_encode_fallback(key, cb)),
                                                Hex02(crc8(Utf8Encode(key))))
                          ELSE items[i] = toks[i]

\* encode has substituted a capitalised word of the vocabulary next to a
\* token that is not word-like
C8_Witness ==
    \E c \in Callers :
        /\ Returned(c, "encode")
        /\ LET toks == tokenize_basic(normalize(call[c].text))
           IN  /\ \E i \in DOMAIN toks :
                     /\ is_word(toks[i]) /\ toks[i] # Lower(toks[i])
                     /\ DictHas(cb.word2em, Lower(toks[i]))
               /\ \E i \in DOMAIN toks : ~is_word(toks[i])

HasDoubleSpace(s) ==
    \E i \in 1..(Len(s) - 1) : IsSpace(s[i]) /\ IsSpace(s[i + 1])

IsMarker(piece) == piece \in Range(MARKERS)

\* the pieces that decode to a word
IsWordPiece(piece) ==
    piece \in {<<"Ξ","7">>, <<"α","β","4","2">>, GoodBlock}

\* the number of markers in a row in pieces from pieces[i] on
RECURSIVE RunLength(_, _)
RunLength(pieces, i) ==
    IF i <= Len(pieces) /\ IsMarker(pieces[i])
    THEN 1 + RunLength(pieces, i + 1) ELSE 0

\* pieces from pieces[i] on, every run of markers between two words replaced
\* by the one marker m
RECURSIVE CollapseRuns(_, _, _)
CollapseRuns(pieces, i, m) ==
    IF i > Len(pieces) THEN <<>>
    ELSE LET k == RunLength(pieces, i + 1)
         IN  IF /\ IsWordPiece(pieces[i]) /\ k >= 1
                /\ i + k + 1 <= Len(pieces) /\ IsWordPiece(pieces[i + k + 1])
             THEN <<pieces[i], m>> \o CollapseRuns(pieces, i + k + 1, m)
             ELSE <<pieces[i]>> \o CollapseRuns(pieces, i + 1, m)

\* C10: the string decode returns has no two adjacent white-space characters
\* and none at either end, and it is the string decode returns when each run
\* of markers between two words of the input is one marker.
C10_MarkerStripping ==
    \A c \in Callers :
        Returned(c, "decode") =>
            LET r == call[c].result
            IN  /\ ~HasDoubleSpace(r)
                /\ r # <<>> => ~IsSpace(r[1]) /\ ~IsSpace(r[Len(r)])
                /\ \A m \in Range(MARKERS) :
                      decode(Concat(CollapseRuns(call[c].pieces, 1, m)), cb) = r

\* decode has returned "the cat" for two symbols with three markers between
C10_Witness ==
    \E c \in Callers :
        /\ Returned(c, "decode")
        /\ call[c].pieces \in MarkerRuns /\ Len(call[c].pieces) = 5
        /\ call[c].result = <<"t","h","e"," ","c","a","t">>

\* C11: the string encode returns has no white space at either end and none
\* right before a closing-punctuation character; for "Hello, world!" with
\* structure 0 it is the block of hello, a comma, one space, the block of
\* world, an exclamation mark.
C11_EncodeSpacing ==
    \A c \in Callers :
        Returned(c, "encode") =>
            LET r == call[c].result
            IN  /\ r # <<>> => ~IsSpace(r[1]) /\ ~IsSpace(r[Len(r)])
                /\ \A i \in 2..Len(r) :
                      r[i] \in {".", ",", "!", "?", ";", ":", ")", "]", "}", "%", "U+00BB"}
                          => ~IsSpace(r[i - 1])
                /\ (call[c].text = HelloWorld /\ call[c].structure = 0) =>
                      r = _encode_fallback(<<"h","e","l","l","o">>, cb)
                            \o <<",", " ">>
                            \o _encode_fallback(<<"w","o","r","l","d">>, cb)
                            \o <<"!">>

\* encode has returned for "Hello, world!" with structure 0, and the comma
\* stands right after a block
C11_Witness ==
    \E c \in Callers :
        /\ Returned(c, "encode")
        /\ call[c].text = HelloWorld /\ call[c].structure = 0
        /\ \E i \in 2..Len(call[c].result) :
              call[c].result[i] = "," /\ call[c].result[i - 1] = "⟧"

\* C12: for a text that is one word-like token w whose lowered form is not in
\* the vocabulary, encode with structure 0 returns one block (the opening
\* delimiter, one or more hex glyphs, "~", two lowercase hex digits, the
\* closing delimiter) and decode of that string returns the lowered w.
C12_EndToEndRoundTrip ==
    \A c \in Callers :
        (call[c].pc # "idle" /\ call[c].op = "decode" /\ call[c].from # NoCall) =>
            LET f == call[c].from
                w == f.text
                b == f.result
            IN  (/\ f.structure = 0
                 /\ tokenize_basic(normalize(w)) = <<w>> /\ is_word(w)
                 /\ ~DictHas(cb.word2em, Lower(w)))
                => /\ Len(b) >= 6
                   /\ b[1] = "⟦" /\ b[Len(b)] = "⟧" /\ b[Len(b) - 3] = "~"
                   /\ \A i \in 2..(Len(b) - 4) :
                         b[i] \in DictValues(HEX_DIGIT_TO_GLYPH)
                   /\ b[Len(b) - 2] \in Range(HEX) /\ b[Len(b) - 1] \in Range(HEX)
                   /\ call[c].pc = "done" => call[c].result = Lower(w)

\* out from out[i] on is items from items[j] on, in order, each item followed
\* by nothing or by one marker
RECURSIVE Interleaved(_, _, _, _)
Interleaved(out, i, items, j) ==
    IF j > Len(items) THEN i = Len(out) + 1
    ELSE /\ i <= Len(out) /\ out[i] = items[j]
         /\ \/ Interleaved(out, i + 1, items, j + 1)
            \/ /\ i + 1 <= Len(out) /\ out[i + 1] \in Range(MARKERS)
               /\ Interleaved(out, i + 2, items, j + 1)

\* C19: with structure > 0 the list encode joins is its items in their order,
\* each followed by nothing or by one inserted marker (so none is inserted
\* before the first item and no two are inserted in a row), one draw of the
\* generator per item and one per marker; with structure = 1 a marker follows
\* every item; with structure = 0 the list is the items and the generator is
\* not drawn from.
C19_SingleInOrderPass ==
    /\ [](\A c \in Callers :
             (call[c].pc \in {"join", "done"} /\ call[c].op = "encode") =>
                 LET items == call[c].items
                     out   == call[c].out
                 IN  /\ call[c].structure = 0 => out = items
                     /\ call[c].structure > 0 =>
                           /\ Interleaved(out, 1, items, 1)
                           /\ Len(noise[call[c].seed]) >= Len(out)
                     /\ call[c].structure = Levels =>
                           /\ Len(out) = 2 * Len(items)
                           /\ \A i \in DOMAIN items :
                                 /\ out[2 * i - 1] = items[i]
                                 /\ out[2 * i] \in Range(MARKERS))
    /\ [][noise' # noise =>
             \E c \in Callers :
                 /\ call[c].pc = "salt" /\ call[c].structure > 0
                 /\ call'[c].pc = "join"]_vars

\* a marker was inserted after the first of two items and none after the
\* second
C19_Witness ==
    \E c \in Callers :
        /\ call[c].pc = "join" /\ call[c].op = "encode"
        /\ call[c].structure \in 1..(Levels - 1)
        /\ Len(call[c].items) = 2 /\ Len(call[c].out) = 3
        /\ call[c].out[2] \in Range(MARKERS)
        /\ call[c].out[3] = call[c].items[2]

\* a space belongs before tokens[i]: it is not the first token, it starts
\* with a word character, the opening delimiter of a block or a Greek letter,
\* it is not one closing-punctuation character, and the token before it is
\* not one opening-punctuation character
NeedsSpace(tokens, i) ==
    LET tok  == tokens[i]
        prev == tokens[i - 1]
    IN  /\ i > 1
        /\ \/ tok[1] \in LETTERS \cup DIGIT_CHARS \cup {"_"}
           \/ tok[1] = "⟦"
           \/ tok[1] \in GREEK
        /\ ~(Len(tok) = 1 /\ tok[1] \in {".", ",", "!", "?", ";", ":", ")", "]",
                                          "}", "%", "U+00BB"})
        /\ ~(Len(prev) = 1 /\ prev[1] \in {"(", "[", "{", "%", "«"})

\* the tokens in their order, one space before each token that needs one
JoinedByRule(tokens) ==
    Concat([i \in DOMAIN tokens |->
               (IF NeedsSpace(tokens, i) THEN <<" ">> ELSE <<>>) \o tokens[i]])

\* C20: the string smart_join returns, for the items of encode and for the
\* tokens of decode, is the tokens in their order and unaltered, with exactly
\* one space before each token that needs one by the rule and nothing
\* between the others.
C20_JoinerRule ==
    \A c \in Callers :
        /\ Returned(c, "encode") => call[c].result = JoinedByRule(call[c].out)
        /\ Returned(c, "decode") =>
              call[c].result = JoinedByRule(tokenize_basic(call[c].s))

\* encode has returned "(Ξ7)" for "(the)": no space after the opening
\* parenthesis although the symbol starts with a Greek letter
C20_Witness ==
    \E c \in Callers :
        /\ Returned(c, "encode")
        /\ call[c].out = << <<"(">>, <<"Ξ","7">>, <<")">> >>
        /\ call[c].result = <<"(", "Ξ", "7", ")">>

\* the words _fallback_decode returns for the blocks GLYPH_BLOCK_RE finds in
\* s, left to right
BlockWordsFound(s, codebook) ==
    LET bs == BlocksFrom(s, 1)
    IN  [i \in DOMAIN bs |->
            _fallback_decode(bs[i].glyphs, bs[i].csum, codebook)]

\* item is one fallback block from its first character to its last
IsBlockItem(item) == item # <<>> /\ BlockMatch(item, 1).n = Len(item)

\* the words the blocks among the items of out decode to, each block decoded
\* from its own glyphs and checksum
BlockWordsAlone(out, codebook) ==
    LET bs == SelectSeq(out, IsBlockItem)
    IN  [i \in DOMAIN bs |->
            _fallback_decode(BlockGlyphs(bs[i]),
                             SubSeq(bs[i], Len(bs[i]) - 2, Len(bs[i]) - 1),
                             codebook)]

\* C21: decode resolves the blocks first, then replaces the markers, then
\* substitutes the symbols, then re-joins; no block is left in the string
\* when the markers are replaced and the symbols looked up; and the blocks of
\* an output of encode are replaced, in their order, by the words they decode
\* to alone, whatever symbols, markers and punctuation stand next to them.
C21_DecodeStepOrder ==
    \A c \in Callers :
        (call[c].pc \in {"markers", "symbols", "tokens", "done"}
            /\ call[c].op = "decode") =>
            LET s1 == decode_blocks(call[c].encoded, cb)
                s2 == decode_markers(s1)
                s3 == _decode_emergent_tokens(s2, cb.em2word)
            IN  /\ call[c].pc = "markers" => call[c].s = s1
                /\ call[c].pc = "symbols" => call[c].s = s2
                /\ call[c].pc = "tokens" => call[c].s = s3
                /\ call[c].pc = "done" => call[c].result = decode_join(s3)
                /\ call[c].from # NoCall =>
                      /\ call[c].pc # "done" => BlocksFrom(call[c].s, 1) = <<>>
                      /\ BlockWordsFound(call[c].encoded, cb)
                            = BlockWordsAlone(call[c].from.out, cb)

\* the matches of EMERG_TOKEN_RE in s from s[i] on, left to right
RECURSIVE SymbolTokens(_, _)
SymbolTokens(s, i) ==
    IF i > Len(s) THEN <<>>
    ELSE LET n == SymbolMatch(s, i)
         IN  IF n = 0 THEN SymbolTokens(s, i + 1)
             ELSE <<SubSeq(s, i, i + n - 1)>> \o SymbolTokens(s, i + n)

\* s from s[i] on without the matches of EMERG_TOKEN_RE
RECURSIVE BetweenSymbols(_, _)
BetweenSymbols(s, i) ==
    IF i > Len(s) THEN <<>>
    ELSE LET n == SymbolMatch(s, i)
         IN  IF n = 0 THEN <<s[i]>> \o BetweenSymbols(s, i + 1)
             ELSE BetweenSymbols(s, i + n)

\* C22: in the string left by block resolution and marker replacement every
\* symbol-shaped token that is a key of em2word is replaced by its word, once,
\* and nothing else is changed; every symbol-shaped token that is not a key
\* and every punctuation character stands in the text decode returns as it
\* stood in the string.
C22_DecodeSubstitution ==
    \A c \in Callers :
        Returned(c, "decode") =>
            LET s2   == decode_markers(decode_blocks(call[c].encoded, cb))
                toks == SymbolTokens(s2, 1)
                put  == [i \in DOMAIN toks |->
                            IF toks[i] \in DictKeys(cb.em2word)
                            THEN DictGet(cb.em2word, toks[i]) ELSE toks[i]]
                rest == BetweenSymbols(s2, 1)
            IN  /\ SymbolTokens(call[c].s, 1)
                      = SelectSeq(toks, LAMBDA t : t \notin DictKeys(cb.em2word))
                /\ Len(call[c].s) = Len(rest) + Len(Concat(put))
                /\ \A i \in DOMAIN toks :
                      Occurrences(call[c].s, put[i]) >= 1
                /\ \A i \in DOMAIN toks :
                      toks[i] \notin DictKeys(cb.em2word)
                          => Occurrences(call[c].result, toks[i]) >= 1
                /\ \A i \in DOMAIN rest :
                      ~IsWordChar(rest[i]) /\ ~IsSpace(rest[i])
                          => Occurrences(call[c].result, <<rest[i]>>) >= 1

\* the pieces with the checksum digits of every block in lower case
LowerSums(pieces) ==
    [i \in DOMAIN pieces |->
        IF IsBlockItem(pieces[i])
        THEN Block(BlockGlyphs(pieces[i]),
                   Lower(SubSeq(pieces[i], Len(pieces[i]) - 2,
                                Len(pieces[i]) - 1)))
        ELSE pieces[i]]

\* 1 plus the sum of the bytes, modulo 256: the low byte of Adler-32 of fewer
\* than 256 bytes
SumByte(bytes) ==
    LET sum[i \in 0..Len(bytes)] ==
            IF i = 0 THEN 1 ELSE sum[i - 1] + bytes[i]
    IN  sum[Len(bytes)] % 256

\* C24: decode finds a block whose checksum digits are in upper case as it
\* finds the block with the digits in lower case, and returns the same text
\* for both; the checksum of a block that resolves to a word is the one-byte
\* sum over the UTF-8 bytes of the word, written as two hex digits, zero
\* padded.
C24_ChecksumCaseInsensitive ==
    \A c \in Callers :
        Returned(c, "decode") =>
            LET lowered == Concat(LowerSums(call[c].pieces))
                found   == BlocksFrom(call[c].encoded, 1)
                words   == BlockWordsFound(call[c].encoded, cb)
            IN  /\ Len(found) = Len(BlocksFrom(lowered, 1))
                /\ call[c].result = decode(lowered, cb)
                /\ \A i \in DOMAIN found :
                      words[i] # UNK =>
                          LET sum == SumByte(Utf8Encode(words[i]))
                          IN  /\ sum \in 0..255
                              /\ Len(found[i].csum) = 2
                              /\ Lower(found[i].csum)
                                    = <<HEX[(sum \div 16) + 1], HEX[(sum % 16) + 1]>>

\* decode has returned "the dog cl" for a string whose blocks end in ~3B and
\* ~D0
C24_Witness ==
    \E c \in Callers :
        /\ Returned(c, "decode")
        /\ Len(call[c].pieces) = 5 /\ call[c].pieces[5] = UpperSumBlock
        /\ call[c].pieces[3] = MixedSumBlock
        /\ call[c].result = <<"t","h","e"," ","d","o","g"," ","c","l">>

\* C25: every token of tokenize_basic is exactly one of a word (letters
\* only), a number (digits only) and one punctuation character; is_word is
\* true of the words and numbers and false of the punctuation only, so no
\* token of more than one character is classified as not word-like, and what
\* encode emits as it stands is one punctuation character.
C25_TokenClassification ==
    \A c \in Callers :
        (call[c].pc \in {"salt", "join", "done"} /\ call[c].op = "encode") =>
            LET toks == tokenize_basic(normalize(call[c].text))
            IN  \A i \in DOMAIN toks :
                    LET t      == toks[i]
                        word   == \A k \in DOMAIN t : IsLetter(t[k])
                        number == \A k \in DOMAIN t : IsDigit(t[k])
                        punct  == /\ Len(t) = 1
                                  /\ ~IsWordChar(t[1]) /\ ~IsSpace(t[1])
                    IN  /\ t # <<>>
                        /\ word \/ number \/ punct
                        /\ ~(word /\ number) /\ ~(word /\ punct)
                        /\ ~(number /\ punct)
                        /\ is_word(t) <=> (word \/ number)
                        /\ ~is_word(t) => Len(t) = 1
                        /\ call[c].items[i] = t => punct

\* C26: no character of a marker that encode_text put into its output is in
\* the text decode_text returns for that output: the text returned has no
\* more colons, signs ∴ and signs ⇔ than the plain text had.
C26_SingleFileMarkersStripped ==
    \A c \in Callers :
        (call[c].pc = "decoded" /\ call[c].op = "decode_text") =>
            \A ch \in {":", THEREFORE, "⇔"} :
                Occurrences(call[c].result, <<ch>>)
                    <= Occurrences(call[c].from.text, <<ch>>)

\* C27: a key w of word2em of a codebook train returned, encoded without
\* markers and decoded with the same codebook, comes back as w, whatever
\* symbol the generator issued for it.
C27_VocabularyRoundTrip ==
    \A c \in Callers :
        (/\ call[c].pc = "done" /\ call[c].op = "decode"
         /\ call[c].from # NoCall
         /\ call[c].from.structure = 0
         /\ DictHas(cb.word2em, call[c].from.text)) =>
            call[c].result = call[c].from.text

\* C28: no symbol train stored in word2em contains a marker, a delimiter of
\* a block or the tilde, so in an output of encode the block scan and the
\* marker replacement of decode leave every symbol as it is.
C28_SymbolsAvoidReserved ==
    \A b \in DOMAIN books :
        \A i \in DOMAIN books[b].cb.word2em :
            LET sym == books[b].cb.word2em[i][2]
            IN  /\ \A m \in Range(MARKERS) : Occurrences(sym, m) = 0
                /\ \A j \in DOMAIN sym : sym[j] \notin {"⟦", "⟧", "~"}

\* the tokens of s that are one punctuation character, in their order
PunctuationOf(s) ==
    SelectSeq(tokenize_basic(s),
              LAMBDA t : Len(t) = 1 /\ ~IsWordChar(t[1]) /\ ~IsSpace(t[1]))

SharedTexts ==
    { <<"t","h","e"," ","d","o","g">>, <<"C","a","t",",">> }

SharedEncoded ==
    { << <<"Ξ","7">>, MARKERS[2], GoodBlock >>, <<BadSumBlock, <<" ">>, <<"α","β","4","2">> >> }

\* the string call c returns when it runs from its beginning to its end with
\* no step of another call in between, the generator drawing what it has drawn
AloneResults(c) ==
    IF call[c].op = "decode" THEN {decode(call[c].encoded, cb)}
    ELSE LET items == encode_items(call[c].text, cb)
         IN  IF call[c].structure > 0
             THEN {smart_join(r.salted) :
                     r \in Salted(items, 1, call[c].structure,
                                  noise[rnd_seed(call[c].seed, clock)], 0)}
             ELSE {smart_join(items)}

\* C9: no step of encode or decode changes the codebook, so a call that ran
\* interleaved with the steps of another call on the same codebook returns
\* what it returns when run alone.
C9_CodebookUnchanged ==
    /\ [][cb' = cb]_vars
    /\ [](\A c \in Callers :
             call[c].pc = "done" => AloneResults(c) = {call[c].result})

\* caller 1 has returned from decode while caller 2 is between two steps of
\* a call of encode that has put markers into its output
C9_Witness ==
    /\ Returned(1, "decode") /\ call[1].result # <<>>
    /\ call[2].pc = "join" /\ call[2].structure > 0
    /\ Len(call[2].out) > Len(call[2].items)

(***************************************************************************)
(* Specifications.                                                         *)
(***************************************************************************)
\* calls of Codebook.train and Codebook.save
TrainInit == TrainIdle /\ fb = FbIdle /\ CodecIdle /\ GenIdle

TrainNext == TrainStart \/ TrainAgain \/ AssignWord \/ TrainFinish \/ Save

SpecTrain == TrainInit /\ [][TrainNext]_vars

\* a call of train that has begun keeps running: the loop takes its next
\* pass and the function returns
SpecTrainFair == SpecTrain /\ WF_vars(AssignWord) /\ WF_vars(TrainFinish)

\* words through the fallback codec
FallbackInit == TrainIdle /\ fb = FbIdle /\ CodecIdle /\ GenIdle

FallbackNext == FbEncode \/ FbTamper \/ FbDecode

SpecFallback == FallbackInit /\ [][FallbackNext]_vars

\* blocks with characters inserted among their glyphs, through
\* _fallback_decode
GlyphsNext == FbEncodeOf(GlyphWords) \/ FbInsert \/ FbDecodeGlyphs

SpecGlyphs == FallbackInit /\ [][GlyphsNext]_vars

\* one caller: a call of encode and its repetition, or a call of decode
CodecInit ==
    /\ TrainIdle /\ fb = FbIdle /\ GenIdle
    /\ cb \in CodecBooks
    /\ call = [c \in Callers |-> NoCall]
    /\ noise = [k \in NoiseKeys |-> <<>>]

CodecNext ==
    \/ EncodeStart(1, Texts) \/ EncodeAgain(1) \/ EncodeSubstitute(1)
    \/ EncodeSalt(1) \/ EncodeJoin(1) \/ TimePasses
    \/ DecodeStart(1, EncodedInputs) \/ DecodeOutput(1)
    \/ DecodeBlocks(1) \/ DecodeMarkers(1)
    \/ DecodeSymbols(1) \/ DecodeJoin(1)

SpecCodec == CodecInit /\ [][CodecNext]_vars

\* a trained codebook in use: a call of encode, and decode called with what
\* it returned
PipelineInit ==
    /\ TrainIdle /\ fb = FbIdle /\ GenIdle
    /\ cb \in TrainedBooks
    /\ call = [c \in Callers |-> NoCall]
    /\ noise = [k \in NoiseKeys |-> <<>>]

PipelineNext ==
    \/ EncodeStart(1, PipelineTexts) \/ EncodeSubstitute(1)
    \/ EncodeSalt(1) \/ EncodeJoin(1) \/ DecodeOutput(1)
    \/ DecodeBlocks(1) \/ DecodeMarkers(1)
    \/ DecodeSymbols(1) \/ DecodeJoin(1)

SpecPipeline == PipelineInit /\ [][PipelineNext]_vars

\* the single-file variant: a call of encode_text, and decode_text called
\* with what it returned
SingleFileNext == EncodeText(1, PipelineTexts) \/ DecodeText(1)

SpecSingleFile == CodecInit /\ [][SingleFileNext]_vars

\* two callers on one codebook, their steps interleaved
SharedNext ==
    \E c \in Callers :
        \/ EncodeStart(c, SharedTexts) \/ EncodeSubstitute(c)
        \/ EncodeSalt(c) \/ EncodeJoin(c)
        \/ DecodeStart(c, SharedEncoded) \/ DecodeBlocks(c)
        \/ DecodeMarkers(c) \/ DecodeSymbols(c) \/ DecodeJoin(c)

SpecShared == CodecInit /\ [][SharedNext]_vars

\* two training runs, each with its generator, their calls interleaved
GeneratorsInit == TrainIdle /\ fb = FbIdle /\ CodecIdle /\ GenIdle

GeneratorsNext == \E g \in Instances : Factory(g) \/ MakeToken(g, MaxCalls)

SpecGenerators == GeneratorsInit /\ [][GeneratorsNext]_vars

\* the first call of make_token on a fresh generator, for every draw
ComposeInit ==
    /\ clock = 0 /\ run = Idle /\ books = <<>> /\ files = <<>>
    /\ fb = FbIdle /\ CodecIdle
    /\ \E d \in FullDraws : FirstDraw(d)

ComposeNext == MakeToken(1, 1)

SpecCompose == ComposeInit /\ [][ComposeNext]_vars

====
